---- MODULE Spec2Model ----
(***************************************************************************)
(* ANSI-aware text reflow writers of terminal-reflowjs.                    *)
(*                                                                         *)
(* A string is a sequence of code points (what `for (const ch of str)`     *)
(* iterates over); a character is its code point.  Every writer object is  *)
(* one record-valued variable whose fields carry the names of the class's  *)
(* fields.  Fields and variables marked "history" record what was fed to   *)
(* the writer; the code does not have them and no transition reads them.   *)
(***************************************************************************)
EXTENDS Integers, Sequences, FiniteSets, TLC

(***************************************************************************)
(* Characters                                                              *)
(***************************************************************************)
ANSI_MARKER == 27
ANSI_RESET == <<27, 91, 48, 109>>
LBRACKET == 91
SGR_FINAL == 109
LETTER_A == 97
ZERO == 48
SPACE == 32
HYPHEN == 45
TAB == 9
LF == 10
CR == 13
CJK == 20320
AT_SIGN == 64

(***************************************************************************)
(* Bounds                                                                  *)
(***************************************************************************)
MaxPieces == 4
MaxHardWrapInput == 4
MaxWordWrapInput == 4
MaxLateInput == 3
MaxIndentPieces == 4
MaxAnyInput == 4
MaxMarginInput == 3
MaxInstanceCalls == 4
MaxTrackerInput == 5

MaxWrapInput == 4

MaxPadInput == 4

(***************************************************************************)
(* Generic helpers on sequences                                            *)
(***************************************************************************)
RECURSIVE Flatten(_)
Flatten(ss) == IF ss = <<>> THEN <<>> ELSE Head(ss) \o Flatten(Tail(ss))

SeqsUpTo(S, n) == UNION {[1..k -> S] : k \in 0..n}

IsPrefix(p, s) == Len(p) <= Len(s) /\ SubSeq(s, 1, Len(p)) = p

(***************************************************************************)
(* ansi: scanner and width                                                 *)
(***************************************************************************)
isAnsiTerminator(c) == (c >= 64 /\ c <= 90) \/ (c >= 97 /\ c <= 122)

\* string-width of one code point: control characters take no column,
\* East-Asian wide characters take two, everything else one.
runeWidth(c) ==
    IF c <= 31 \/ (c >= 127 /\ c <= 159) THEN 0
    ELSE IF c >= 4352 THEN 2
    ELSE 1

RECURSIVE stringWidth(_)
stringWidth(s) == IF s = <<>> THEN 0 ELSE runeWidth(Head(s)) + stringWidth(Tail(s))

\* The scanner of printableRuneWidth and stripAnsi: the visible characters of
\* str from position i on, given whether position i is inside a sequence.
RECURSIVE visibleFrom(_, _, _)
visibleFrom(str, i, inAnsi) ==
    IF i > Len(str) THEN <<>>
    ELSE IF str[i] = ANSI_MARKER THEN visibleFrom(str, i + 1, TRUE)
    ELSE IF inAnsi THEN visibleFrom(str, i + 1, ~isAnsiTerminator(str[i]))
    ELSE <<str[i]>> \o visibleFrom(str, i + 1, FALSE)

\* A stripper that removes a sequence but leaves its final byte.
RECURSIVE visibleKeepFinalFrom(_, _, _)
visibleKeepFinalFrom(str, i, inAnsi) ==
    IF i > Len(str) THEN <<>>
    ELSE IF str[i] = ANSI_MARKER THEN visibleKeepFinalFrom(str, i + 1, TRUE)
    ELSE IF inAnsi /\ ~isAnsiTerminator(str[i])
    THEN visibleKeepFinalFrom(str, i + 1, TRUE)
    ELSE <<str[i]>> \o visibleKeepFinalFrom(str, i + 1, FALSE)

stripAnsiKeepFinal(str) == visibleKeepFinalFrom(str, 1, FALSE)

stripAnsi(str) == visibleFrom(str, 1, FALSE)

printableRuneWidth(str) == stringWidth(visibleFrom(str, 1, FALSE))

\* Whether a scanner that has read all of str is still inside a sequence.
RECURSIVE endsInAnsi(_, _, _)
endsInAnsi(str, i, inAnsi) ==
    IF i > Len(str) THEN inAnsi
    ELSE IF str[i] = ANSI_MARKER THEN endsInAnsi(str, i + 1, TRUE)
    ELSE IF inAnsi THEN endsInAnsi(str, i + 1, ~isAnsiTerminator(str[i]))
    ELSE endsInAnsi(str, i + 1, FALSE)

(***************************************************************************)
(* AnsiBuffer                                                              *)
(***************************************************************************)
AnsiBufferNew ==
    [output |-> <<>>, ansiSeq |-> <<>>, lastSeq |-> <<>>,
     inAnsi |-> FALSE, seqChanged |-> FALSE]

\* Every completed sequence but the reset recorded as the last style.
AnsiBufferPutAnyTerminator(b, ch) ==
    IF ch = ANSI_MARKER
    THEN [b EXCEPT !.inAnsi = TRUE, !.seqChanged = TRUE,
                   !.ansiSeq = Append(@, ch)]
    ELSE IF b.inAnsi
    THEN LET seq == Append(b.ansiSeq, ch) IN
         IF isAnsiTerminator(ch)
         THEN [output |-> b.output \o seq,
               ansiSeq |-> <<>>,
               lastSeq |-> IF seq = ANSI_RESET THEN <<>> ELSE seq,
               inAnsi |-> FALSE,
               seqChanged |-> IF seq = ANSI_RESET THEN FALSE ELSE b.seqChanged]
         ELSE [b EXCEPT !.ansiSeq = seq]
    ELSE [b EXCEPT !.output = Append(@, ch)]

\* One iteration of the loop of AnsiBuffer.write.
AnsiBufferPut(b, ch) ==
    IF ch = ANSI_MARKER
    THEN [b EXCEPT !.inAnsi = TRUE, !.seqChanged = TRUE,
                   !.ansiSeq = Append(@, ch)]
    ELSE IF b.inAnsi
    THEN LET seq == Append(b.ansiSeq, ch) IN
         IF isAnsiTerminator(ch)
         THEN [output |-> b.output \o seq,
               ansiSeq |-> <<>>,
               lastSeq |-> IF seq = ANSI_RESET THEN <<>>
                           ELSE IF ch = SGR_FINAL THEN seq
                           ELSE b.lastSeq,
               inAnsi |-> FALSE,
               seqChanged |-> IF seq = ANSI_RESET THEN FALSE ELSE b.seqChanged]
         ELSE [b EXCEPT !.ansiSeq = seq]
    ELSE [b EXCEPT !.output = Append(@, ch)]

RECURSIVE AnsiBufferWrite(_, _)
AnsiBufferWrite(b, str) ==
    IF str = <<>> THEN b
    ELSE AnsiBufferWrite(AnsiBufferPut(b, Head(str)), Tail(str))

AnsiBufferGetLastSequence(b) == b.lastSeq

AnsiBufferResetAnsi(b) ==
    IF ~b.seqChanged THEN b
    ELSE [b EXCEPT !.output = @ \o ANSI_RESET]

AnsiBufferToString(b) == b.output

(***************************************************************************)
(* TruncateWriter                                                          *)
(***************************************************************************)
\* cut (history): the length of the output at the moment the writer decided
\* to truncate, -1 while it has not.
TruncateWriterNew(width, tail) ==
    [width |-> width, tail |-> tail, ansiBuffer |-> AnsiBufferNew,
     inAnsi |-> FALSE, truncated |-> FALSE, cut |-> -1]

TruncateCutResetFirst(w) ==
    LET closed == IF AnsiBufferGetLastSequence(w.ansiBuffer) # <<>>
                  THEN AnsiBufferResetAnsi(w.ansiBuffer)
                  ELSE w.ansiBuffer
    IN [w EXCEPT !.ansiBuffer = AnsiBufferWrite(closed, w.tail),
                 !.truncated = TRUE,
                 !.cut = Len(w.ansiBuffer.output)]

\* Lines 87-93: the tail, then the reset when a style is the last sequence.
TruncateCut(w) ==
    LET withTail == AnsiBufferWrite(w.ansiBuffer, w.tail)
        closed == IF AnsiBufferGetLastSequence(withTail) # <<>>
                  THEN AnsiBufferResetAnsi(withTail)
                  ELSE withTail
    IN [w EXCEPT !.ansiBuffer = closed, !.truncated = TRUE,
                 !.cut = Len(w.ansiBuffer.output)]

TruncateCountedByLength(w, ch) ==
    IF ch = ANSI_MARKER THEN 0
    ELSE IF w.inAnsi THEN 0
    ELSE 1

TruncateCounted(w, ch) ==
    IF ch = ANSI_MARKER THEN 0
    ELSE IF w.inAnsi THEN 0
    ELSE runeWidth(ch)

TruncateInAnsi(w, ch) ==
    IF ch = ANSI_MARKER THEN TRUE
    ELSE IF w.inAnsi THEN ~isAnsiTerminator(ch)
    ELSE FALSE

\* The loop of write from position i on, currentWidth being the local counter.
RECURSIVE TruncateLoop(_, _, _, _)
TruncateLoop(w, content, i, currentWidth) ==
    IF i > Len(content) THEN w
    ELSE LET ch == content[i]
             counted == currentWidth + TruncateCounted(w, ch)
             scanned == [w EXCEPT !.inAnsi = TruncateInAnsi(w, ch)]
         IN IF counted > w.width - printableRuneWidth(w.tail)
            THEN TruncateCut(scanned)
            ELSE TruncateLoop(
                    [scanned EXCEPT !.ansiBuffer = AnsiBufferPut(@, ch)],
                    content, i + 1, counted)

TruncateWriterWrite(w, content) ==
    IF w.truncated THEN w
    ELSE IF w.width < printableRuneWidth(w.tail)
    THEN [w EXCEPT !.ansiBuffer = AnsiBufferWrite(@, w.tail),
                   !.truncated = TRUE]
    ELSE TruncateLoop(w, content, 1, 0)

TruncateWriterToString(w) == AnsiBufferToString(w.ansiBuffer)

truncate(s, width, tail) ==
    TruncateWriterToString(TruncateWriterWrite(TruncateWriterNew(width, tail), s))

(***************************************************************************)
(* HardWrapWriter                                                          *)
(***************************************************************************)
DEFAULT_TAB_WIDTH == 4

\* History: inj, the positions of buf at which a newline inserted by
\* wrapping starts; resumed, whether a write began on a line already begun
\* or inside a sequence.
HardWrapWriterNew(limit, newline, keepNewlines, preserveSpace, tabWidth) ==
    [limit |-> limit, newline |-> newline, keepNewlines |-> keepNewlines,
     preserveSpace |-> preserveSpace, tabWidth |-> tabWidth,
     buf |-> <<>>, lineLen |-> 0, ansi |-> FALSE, inj |-> {},
     resumed |-> FALSE]

HardWrapNewlineChars(w) == {LF, CR} \cup {w.newline[i] : i \in 1..Len(w.newline)}

\* A space that ends the line removed from the output before the newline.
HardWrapBreakTrimTrailing(w) ==
    LET trimmed == IF w.buf # <<>> /\ w.buf[Len(w.buf)] = SPACE
                   THEN SubSeq(w.buf, 1, Len(w.buf) - 1)
                   ELSE w.buf
    IN [w EXCEPT !.buf = trimmed \o w.newline, !.lineLen = 0,
                 !.inj = @ \cup {Len(trimmed) + 1}]

\* Lines 343-344 and 361-362: the newline a wrap inserts.
HardWrapBreak(w) ==
    [w EXCEPT !.buf = @ \o w.newline, !.lineLen = 0,
              !.inj = @ \cup {Len(w.buf) + 1}]

\* The expansion carried on after a wrap whatever preserveSpace says.
RECURSIVE HardWrapTabKeepRest(_, _)
HardWrapTabKeepRest(w, remaining) ==
    IF remaining <= 0 THEN w
    ELSE LET full == w.limit > 0 /\ w.lineLen >= w.limit
             w1 == IF full THEN HardWrapBreak(w) ELSE w
         IN HardWrapTabKeepRest(
                [w1 EXCEPT !.buf = Append(@, SPACE), !.lineLen = @ + 1],
                remaining - 1)

\* Lines 341-354: the expansion of a tab, remaining spaces still to go.
RECURSIVE HardWrapTab(_, _)
HardWrapTab(w, remaining) ==
    IF remaining <= 0 THEN w
    ELSE LET full == w.limit > 0 /\ w.lineLen >= w.limit
             w1 == IF full THEN HardWrapBreak(w) ELSE w
         IN IF full /\ ~w.preserveSpace THEN w1
            ELSE HardWrapTab(
                    [w1 EXCEPT !.buf = Append(@, SPACE), !.lineLen = @ + 1],
                    remaining - 1)

\* The wrap decided on the number of characters, not on their width.
HardWrapPlainByLength(w, c) ==
    LET charWidth == runeWidth(c)
        wraps == w.limit > 0 /\ w.lineLen + 1 > w.limit
        w1 == IF wraps THEN HardWrapBreak(w) ELSE w
    IN IF wraps /\ ~w.preserveSpace /\ c = SPACE THEN w1
       ELSE [w1 EXCEPT !.buf = Append(@, c), !.lineLen = @ + charWidth]

\* The space that triggers a wrap dropped whatever preserveSpace says.
HardWrapPlainDropsSpace(w, c) ==
    LET charWidth == runeWidth(c)
        wraps == w.limit > 0 /\ w.lineLen + charWidth > w.limit
        w1 == IF wraps THEN HardWrapBreak(w) ELSE w
    IN IF wraps /\ c = SPACE THEN w1
       ELSE [w1 EXCEPT !.buf = Append(@, c), !.lineLen = @ + charWidth]

\* Lines 358-370: a plain character.
HardWrapPlain(w, c) ==
    LET charWidth == runeWidth(c)
        wraps == w.limit > 0 /\ w.lineLen + charWidth > w.limit
        w1 == IF wraps THEN HardWrapBreak(w) ELSE w
    IN IF wraps /\ ~w.preserveSpace /\ c = SPACE THEN w1
       ELSE [w1 EXCEPT !.buf = Append(@, c), !.lineLen = @ + charWidth]

\* The wrap check made before the sequence check: a newline can land inside
\* a sequence.
HardWrapPutWrapFirst(w, c) ==
    IF c = ANSI_MARKER
    THEN [w EXCEPT !.buf = Append(@, c), !.ansi = TRUE]
    ELSE IF w.ansi /\ ~(w.limit > 0 /\ w.lineLen + runeWidth(c) > w.limit)
    THEN [w EXCEPT !.buf = Append(@, c), !.ansi = ~isAnsiTerminator(c)]
    ELSE IF c \in HardWrapNewlineChars(w)
    THEN IF w.keepNewlines
         THEN [w EXCEPT !.buf = @ \o w.newline, !.lineLen = 0]
         ELSE w
    ELSE IF c = TAB /\ w.tabWidth > 0
    THEN HardWrapTab(w, w.tabWidth)
    ELSE [HardWrapPlain(w, c) EXCEPT !.ansi = w.ansi /\ ~isAnsiTerminator(c)]

\* A sequence taken to end at a space as well as at a letter.
HardWrapPutEndsAtSpace(w, c) ==
    IF c = ANSI_MARKER
    THEN [w EXCEPT !.buf = Append(@, c), !.ansi = TRUE]
    ELSE IF w.ansi /\ c # SPACE
    THEN [w EXCEPT !.buf = Append(@, c), !.ansi = ~isAnsiTerminator(c)]
    ELSE IF c \in HardWrapNewlineChars(w)
    THEN IF w.keepNewlines
         THEN [w EXCEPT !.buf = @ \o w.newline, !.lineLen = 0]
         ELSE w
    ELSE IF c = TAB /\ w.tabWidth > 0
    THEN HardWrapTab(w, w.tabWidth)
    ELSE [HardWrapPlain(w, c) EXCEPT !.ansi = FALSE]

\* A dropped newline that still starts a new line for the width count.
HardWrapPutNewlineResets(w, c) ==
    IF c = ANSI_MARKER
    THEN [w EXCEPT !.buf = Append(@, c), !.ansi = TRUE]
    ELSE IF w.ansi
    THEN [w EXCEPT !.buf = Append(@, c), !.ansi = ~isAnsiTerminator(c)]
    ELSE IF c \in HardWrapNewlineChars(w)
    THEN IF w.keepNewlines
         THEN [w EXCEPT !.buf = @ \o w.newline, !.lineLen = 0]
         ELSE [w EXCEPT !.lineLen = 0]
    ELSE IF c = TAB /\ w.tabWidth > 0
    THEN HardWrapTab(w, w.tabWidth)
    ELSE HardWrapPlain(w, c)

\* One iteration of the loop of HardWrapWriter.write (lines 315-371).
HardWrapPut(w, c) ==
    IF c = ANSI_MARKER
    THEN [w EXCEPT !.buf = Append(@, c), !.ansi = TRUE]
    ELSE IF w.ansi
    THEN [w EXCEPT !.buf = Append(@, c), !.ansi = ~isAnsiTerminator(c)]
    ELSE IF c \in HardWrapNewlineChars(w)
    THEN IF w.keepNewlines
         THEN [w EXCEPT !.buf = @ \o w.newline, !.lineLen = 0]
         ELSE w
    ELSE IF c = TAB /\ w.tabWidth > 0
    THEN HardWrapTab(w, w.tabWidth)
    ELSE HardWrapPlain(w, c)

RECURSIVE HardWrapLoop(_, _)
HardWrapLoop(w, s) ==
    IF s = <<>> THEN w
    ELSE HardWrapLoop(HardWrapPut(w, Head(s)), Tail(s))

\* Whether a write of s begins on a line already begun or inside a sequence.
HardWrapResumes(w, s) == s # <<>> /\ (w.lineLen > 0 \/ w.ansi)

\* Every write starts counting the line width from 0.
HardWrapWriterWriteFreshLine(w, s) ==
    [HardWrapLoop([w EXCEPT !.lineLen = 0], s) EXCEPT
        !.resumed = w.resumed \/ HardWrapResumes(w, s)]

HardWrapWriterWrite(w, s) ==
    [HardWrapLoop(w, s) EXCEPT !.resumed = w.resumed \/ HardWrapResumes(w, s)]

HardWrapWriterToString(w) == w.buf

hardwrap(s, limit, newline, keepNewlines, preserveSpace, tabWidth) ==
    HardWrapWriterToString(HardWrapWriterWrite(
        HardWrapWriterNew(limit, newline, keepNewlines, preserveSpace, tabWidth), s))

(***************************************************************************)
(* WordWrapWriter                                                          *)
(***************************************************************************)
\* buf is the array of pushed strings, as in the code (close() pops whole
\* elements).  History: inj, the indices of buf holding a newline inserted
\* by wrapping; closed, whether close() was called; late, whether a write
\* was served after close(); closedBuf, toString() when close() returned;
\* threw, whether the last call ended by throwing; split, whether a write
\* began while a word, a space run or a sequence was pending.
WordWrapWriterNew(limit, breakpoints, newline, keepNewlines) ==
    [limit |-> limit, breakpoints |-> breakpoints, newline |-> newline,
     keepNewlines |-> keepNewlines,
     buf |-> <<>>, lineLen |-> 0, ansi |-> FALSE,
     space |-> <<>>, word |-> <<>>, wordLen |-> 0,
     inj |-> {}, closed |-> FALSE, late |-> FALSE, closedBuf |-> <<>>,
     threw |-> FALSE, split |-> FALSE]

DEFAULT_BREAKPOINTS == {SPACE, HYPHEN}

DEFAULT_NEWLINES == {LF}

\* buf.push(str); lineLen += width
WordWrapPush(w, str, width) ==
    [w EXCEPT !.buf = Append(@, str), !.lineLen = @ + width]

\* The pending space dropped at every line start.
WordWrapFlushSpaceBeforeWordDropLeading(w) ==
    LET spaceStr == w.space
        spaceWidth == stringWidth(spaceStr)
        cleared == [w EXCEPT !.space = <<>>]
    IN IF w.lineLen = 0 THEN cleared
       ELSE IF w.limit > 0 /\ w.lineLen + spaceWidth + w.wordLen > w.limit
       THEN [cleared EXCEPT !.buf = Append(@, <<LF>>), !.lineLen = 0,
                            !.inj = @ \cup {Len(w.buf) + 1}]
       ELSE IF spaceWidth > 0
            THEN WordWrapPush(cleared, spaceStr, spaceWidth)
            ELSE cleared

\* The wrap decided without the width of the pending space.
WordWrapFlushSpaceBeforeWordIgnoreSpace(w) ==
    LET spaceStr == w.space
        spaceWidth == stringWidth(spaceStr)
        cleared == [w EXCEPT !.space = <<>>]
    IN IF w.limit > 0 /\ w.lineLen > 0 /\ w.lineLen + w.wordLen > w.limit
       THEN [cleared EXCEPT !.buf = Append(@, <<LF>>), !.lineLen = 0,
                            !.inj = @ \cup {Len(w.buf) + 1}]
       ELSE IF w.lineLen = 0 /\ ~w.keepNewlines
       THEN cleared
       ELSE IF spaceWidth > 0 /\ (w.lineLen > 0 \/ w.limit = 0 \/ spaceWidth <= w.limit)
            THEN WordWrapPush(cleared, spaceStr, spaceWidth)
            ELSE cleared

\* Lines 163-194 of flushWordOnly: what happens to the pending space.
WordWrapFlushSpaceBeforeWord(w) ==
    LET spaceStr == w.space
        spaceWidth == stringWidth(spaceStr)
        cleared == [w EXCEPT !.space = <<>>]
    IN IF w.limit > 0 /\ w.lineLen > 0
       THEN IF w.lineLen + spaceWidth + w.wordLen > w.limit
            THEN [cleared EXCEPT !.buf = Append(@, <<LF>>), !.lineLen = 0,
                                 !.inj = @ \cup {Len(w.buf) + 1}]
            ELSE IF spaceWidth > 0
                 THEN WordWrapPush(cleared, spaceStr, spaceWidth)
                 ELSE cleared
       ELSE IF w.lineLen = 0
       THEN IF ~w.keepNewlines
            THEN cleared
            ELSE IF spaceWidth > 0 /\ (w.limit = 0 \/ spaceWidth <= w.limit)
                 THEN WordWrapPush(cleared, spaceStr, spaceWidth)
                 ELSE cleared
       ELSE IF spaceWidth > 0
            THEN WordWrapPush(cleared, spaceStr, spaceWidth)
            ELSE cleared

\* A word wider than the limit broken after its first character.
WordWrapFlushWordOnlyBreakLong(w) ==
    IF w.word = <<>> THEN w
    ELSE LET w1 == WordWrapFlushSpaceBeforeWord(w) IN
         IF w.limit > 0 /\ w.wordLen > w.limit /\ Len(w.word) > 1
         THEN [w1 EXCEPT !.buf = @ \o <<<<Head(w.word)>>, <<LF>>, Tail(w.word)>>,
                         !.lineLen = w.wordLen - runeWidth(Head(w.word)),
                         !.word = <<>>, !.wordLen = 0]
         ELSE [WordWrapPush(w1, w.word, w.wordLen) EXCEPT
                         !.word = <<>>, !.wordLen = 0]

\* flushWordOnly (lines 160-202).
WordWrapFlushWordOnly(w) ==
    IF w.word = <<>> THEN w
    ELSE [WordWrapPush(WordWrapFlushSpaceBeforeWord(w), w.word, w.wordLen)
             EXCEPT !.word = <<>>, !.wordLen = 0]

\* Lines 112-120 and 209-218: the pending space pushed if it fits.
WordWrapFlushSpace(w) ==
    IF w.space = <<>> THEN w
    ELSE LET spaceStr == w.space
             spaceWidth == stringWidth(spaceStr)
             cleared == [w EXCEPT !.space = <<>>]
         IN IF w.limit = 0 \/ w.lineLen + spaceWidth <= w.limit
            THEN WordWrapPush(cleared, spaceStr, spaceWidth)
            ELSE cleared

\* flushWordAndSpace (lines 204-219).
WordWrapFlushWordAndSpace(w) ==
    WordWrapFlushSpace(IF w.word # <<>> THEN WordWrapFlushWordOnly(w) ELSE w)

\* Lines 106-128: a breakpoint character.
WordWrapBreakpoint(w, c) ==
    LET w1 == WordWrapFlushWordOnly(w) IN
    IF c = SPACE \/ c = TAB
    THEN [w1 EXCEPT !.space = Append(@, c)]
    ELSE LET w2 == WordWrapFlushSpace(w1)
             charWidth == runeWidth(c)
         IN IF w2.limit = 0 \/ w2.lineLen + charWidth <= w2.limit
            THEN WordWrapPush(w2, <<c>>, charWidth)
            ELSE w2

\* The pending space always emitted before a kept newline.
WordWrapNewlineKeepSpace(w) ==
    IF w.keepNewlines
    THEN LET w1 == IF w.word # <<>> THEN WordWrapFlushWordOnly(w) ELSE w
             w2 == IF w1.space = <<>> THEN w1
                   ELSE WordWrapPush([w1 EXCEPT !.space = <<>>], w1.space,
                                     stringWidth(w1.space))
         IN [w2 EXCEPT !.buf = Append(@, <<LF>>), !.lineLen = 0]
    ELSE LET w1 == WordWrapFlushWordOnly(w) IN
         IF w1.space = <<>> \/ w1.space[Len(w1.space)] # SPACE
         THEN [w1 EXCEPT !.space = Append(@, SPACE)]
         ELSE w1

\* Lines 89-104: a newline character.
WordWrapNewline(w) ==
    IF w.keepNewlines
    THEN [WordWrapFlushWordAndSpace(w) EXCEPT !.buf = Append(@, <<LF>>),
                                            !.lineLen = 0]
    ELSE LET w1 == WordWrapFlushWordOnly(w) IN
         IF w1.space = <<>> \/ w1.space[Len(w1.space)] # SPACE
         THEN [w1 EXCEPT !.space = Append(@, SPACE)]
         ELSE w1

\* One iteration of the loop of WordWrapWriter.write (lines 74-132).
WordWrapPut(w, c) ==
    IF c = ANSI_MARKER
    THEN [w EXCEPT !.word = Append(@, c), !.ansi = TRUE]
    ELSE IF w.ansi
    THEN [w EXCEPT !.word = Append(@, c), !.ansi = ~isAnsiTerminator(c)]
    ELSE IF c \in w.newline
    THEN WordWrapNewline(w)
    ELSE IF c \in w.breakpoints
    THEN WordWrapBreakpoint(w, c)
    ELSE [w EXCEPT !.word = Append(@, c), !.wordLen = @ + runeWidth(c)]

RECURSIVE WordWrapLoop(_, _)
WordWrapLoop(w, s) ==
    IF s = <<>> THEN w
    ELSE WordWrapLoop(WordWrapPut(w, Head(s)), Tail(s))

\* Whether a write of s begins with something pending.
WordWrapSplits(w, s) ==
    s # <<>> /\ (w.word # <<>> \/ w.space # <<>> \/ w.ansi)

\* Every write scans from outside a sequence.
WordWrapWriterWriteFreshScan(w, s) ==
    [WordWrapLoop([w EXCEPT !.ansi = FALSE], s) EXCEPT
        !.late = w.closed \/ w.late, !.threw = FALSE,
        !.split = w.split \/ WordWrapSplits(w, s)]

\* write never throws: the class keeps no record of close().
WordWrapWriterWrite(w, s) ==
    [WordWrapLoop(w, s) EXCEPT !.late = w.closed \/ w.late, !.threw = FALSE,
                               !.split = w.split \/ WordWrapSplits(w, s)]

\* Lines 141-150: trailing elements that are one space or one tab are popped.
RECURSIVE WordWrapStripTrailing(_)
WordWrapStripTrailing(buf) ==
    IF buf # <<>> /\ (buf[Len(buf)] = <<SPACE>> \/ buf[Len(buf)] = <<TAB>>)
    THEN WordWrapStripTrailing(SubSeq(buf, 1, Len(buf) - 1))
    ELSE buf

WordWrapWriterToString(w) == Flatten(w.buf)

WordWrapWriterClose(w) ==
    LET w1 == WordWrapFlushWordAndSpace(w)
        w2 == IF ~w.keepNewlines
              THEN [w1 EXCEPT !.buf = WordWrapStripTrailing(w1.buf)]
              ELSE w1
    IN [w2 EXCEPT !.closed = TRUE, !.closedBuf = Flatten(w2.buf),
                  !.threw = FALSE]

wordwrap(s, limit, breakpoints, newline, keepNewlines) ==
    WordWrapWriterToString(WordWrapWriterClose(WordWrapWriterWrite(
        WordWrapWriterNew(limit, breakpoints, newline, keepNewlines), s)))

(***************************************************************************)
(* AnsiPassthrough                                                         *)
(***************************************************************************)
\* The forward target is the string the operations return in out.
AnsiPassthroughNew ==
    [ansi |-> FALSE, ansiseq |-> <<>>, lastseq |-> <<>>, seqchanged |-> FALSE]

EndsWithReset(seq) ==
    Len(seq) >= 3 /\ SubSeq(seq, Len(seq) - 2, Len(seq)) = SubSeq(ANSI_RESET, 2, 4)

\* One iteration of the loop of AnsiPassthrough.write: the new state and
\* what is forwarded.
AnsiPassthroughPut(p, c) ==
    IF c = ANSI_MARKER
    THEN [p |-> [p EXCEPT !.ansi = TRUE, !.seqchanged = TRUE,
                          !.ansiseq = Append(@, c)],
          out |-> <<>>]
    ELSE IF p.ansi
    THEN LET seq == Append(p.ansiseq, c) IN
         IF isAnsiTerminator(c)
         THEN [p |-> [ansi |-> FALSE,
                      ansiseq |-> <<>>,
                      lastseq |-> IF EndsWithReset(seq) THEN <<>>
                                  ELSE IF c = SGR_FINAL THEN seq
                                  ELSE p.lastseq,
                      seqchanged |-> IF EndsWithReset(seq) THEN FALSE
                                     ELSE p.seqchanged],
               out |-> seq]
         ELSE [p |-> [p EXCEPT !.ansiseq = seq], out |-> <<>>]
    ELSE [p |-> p, out |-> <<c>>]

RECURSIVE AnsiPassthroughWrite(_, _)
AnsiPassthroughWrite(p, data) ==
    IF data = <<>> THEN [p |-> p, out |-> <<>>]
    ELSE LET first == AnsiPassthroughPut(p, Head(data))
             rest == AnsiPassthroughWrite(first.p, Tail(data))
         IN [p |-> rest.p, out |-> first.out \o rest.out]

AnsiPassthroughGetLastSequence(p) == p.lastseq

\* What resetAnsi forwards.
AnsiPassthroughResetAnsi(p) == IF ~p.seqchanged THEN <<>> ELSE ANSI_RESET

\* What restoreAnsi forwards.
AnsiPassthroughRestoreAnsi(p) == p.lastseq

(***************************************************************************)
(* IndentWriter                                                            *)
(***************************************************************************)
\* inj (history): the positions of buf at which something the writer adds
\* (reset, indentation, restored style) starts.
IndentWriterNew(indent) ==
    [indent |-> indent, ansiPassthrough |-> AnsiPassthroughNew,
     buf |-> <<>>, skipIndent |-> FALSE, inAnsi |-> FALSE, inj |-> {}]

Spaces(n) == [i \in 1..n |-> SPACE]

\* An indentation of at least one space whatever the count.
IndentWriterIndentationAtLeastOne(w) ==
    LET reset == AnsiPassthroughResetAnsi(w.ansiPassthrough)
        pad == AnsiPassthroughWrite(w.ansiPassthrough,
                                    Spaces(IF w.indent = 0 THEN 1 ELSE w.indent))
        restore == AnsiPassthroughRestoreAnsi(pad.p)
    IN [w EXCEPT !.ansiPassthrough = pad.p,
                 !.buf = @ \o reset \o pad.out \o restore,
                 !.skipIndent = TRUE]

\* Lines 233-245: reset, indentation, restore before the first plain
\* character of a line.
IndentWriterIndentation(w) ==
    LET reset == AnsiPassthroughResetAnsi(w.ansiPassthrough)
        pad == AnsiPassthroughWrite(w.ansiPassthrough, Spaces(w.indent))
        restore == AnsiPassthroughRestoreAnsi(pad.p)
        at1 == Len(w.buf) + 1
        at2 == at1 + Len(reset)
        at3 == at2 + Len(pad.out)
    IN [w EXCEPT !.ansiPassthrough = pad.p,
                 !.buf = @ \o reset \o pad.out \o restore,
                 !.skipIndent = TRUE,
                 !.inj = @ \cup (IF reset # <<>> THEN {at1} ELSE {})
                           \cup (IF pad.out # <<>> THEN {at2} ELSE {})
                           \cup (IF restore # <<>> THEN {at3} ELSE {})]

\* The indentation left out before a newline, so that empty lines stay empty.
IndentWriterPutSkipEmptyLines(w, c) ==
    LET w1 == IF c = ANSI_MARKER THEN [w EXCEPT !.inAnsi = TRUE]
              ELSE IF w.inAnsi
              THEN [w EXCEPT !.inAnsi = ~isAnsiTerminator(c)]
              ELSE LET w0 == IF ~w.skipIndent /\ c # LF
                             THEN IndentWriterIndentation(w) ELSE w
                   IN IF c = LF THEN [w0 EXCEPT !.skipIndent = FALSE] ELSE w0
        fwd == AnsiPassthroughPut(w1.ansiPassthrough, c)
    IN [w1 EXCEPT !.ansiPassthrough = fwd.p, !.buf = @ \o fwd.out]

\* The indentation written before whatever comes first on a line, an escape
\* marker included.
IndentWriterPutIndentsBeforeSequence(w, c) ==
    LET w0 == IF ~w.skipIndent /\ ~w.inAnsi
              THEN IndentWriterIndentation(w) ELSE w
        w1 == IF c = ANSI_MARKER THEN [w0 EXCEPT !.inAnsi = TRUE]
              ELSE IF w.inAnsi
              THEN [w0 EXCEPT !.inAnsi = ~isAnsiTerminator(c)]
              ELSE IF c = LF THEN [w0 EXCEPT !.skipIndent = FALSE] ELSE w0
        fwd == AnsiPassthroughPut(w1.ansiPassthrough, c)
    IN [w1 EXCEPT !.ansiPassthrough = fwd.p, !.buf = @ \o fwd.out]

\* One iteration of the loop of IndentWriter.write (lines 225-252).
IndentWriterPut(w, c) ==
    LET w1 == IF c = ANSI_MARKER THEN [w EXCEPT !.inAnsi = TRUE]
              ELSE IF w.inAnsi
              THEN [w EXCEPT !.inAnsi = ~isAnsiTerminator(c)]
              ELSE LET w0 == IF ~w.skipIndent
                             THEN IndentWriterIndentation(w) ELSE w
                   IN IF c = LF THEN [w0 EXCEPT !.skipIndent = FALSE] ELSE w0
        fwd == AnsiPassthroughPut(w1.ansiPassthrough, c)
    IN [w1 EXCEPT !.ansiPassthrough = fwd.p, !.buf = @ \o fwd.out]

RECURSIVE IndentWriterWrite(_, _)
IndentWriterWrite(w, data) ==
    IF data = <<>> THEN w
    ELSE IndentWriterWrite(IndentWriterPut(w, Head(data)), Tail(data))

IndentWriterToString(w) == w.buf

indent(s, spaces) == IndentWriterToString(IndentWriterWrite(IndentWriterNew(spaces), s))

(***************************************************************************)
(* MarginWriterImpl                                                        *)
(***************************************************************************)
\* History: call, the last method called; threw, whether it ended by
\* throwing; returned, what the last toString() returned.
MarginWriterNew(width, top, bottom, left, right) ==
    [width |-> width,
     opts |-> [top |-> top, bottom |-> bottom, left |-> left, right |-> right],
     buffer |-> <<>>, result |-> <<>>, closed |-> FALSE,
     call |-> "new", threw |-> FALSE, returned |-> <<>>]

\* content.split("\n")
RECURSIVE MarginSplit(_, _, _)
MarginSplit(content, i, cur) ==
    IF i > Len(content) THEN <<cur>>
    ELSE IF content[i] = LF
    THEN <<cur>> \o MarginSplit(content, i + 1, <<>>)
    ELSE MarginSplit(content, i + 1, Append(cur, content[i]))

\* lines.join("\n")
RECURSIVE MarginJoin(_)
MarginJoin(lines) ==
    IF lines = <<>> THEN <<>>
    ELSE IF Len(lines) = 1 THEN lines[1]
    ELSE lines[1] \o <<LF>> \o MarginJoin(Tail(lines))

\* Lines 143-150: one line between its left and right spaces.
MarginPadLine(w, line) ==
    LET visibleWidth == printableRuneWidth(line)
        rest == w.width - w.opts.left - visibleWidth
        desiredRight == IF w.opts.right # 0 THEN w.opts.right
                        ELSE IF w.width > 0
                        THEN (IF rest > 0 THEN rest ELSE 0)
                        ELSE 0
    IN [i \in 1..w.opts.left |-> SPACE] \o line
          \o [i \in 1..desiredRight |-> SPACE]

MarginApplyMargins(w, content) ==
    LET lines == MarginSplit(content, 1, <<>>)
        paddedLines == [i \in 1..Len(lines) |-> MarginPadLine(w, lines[i])]
        blankLine == [i \in 1..(w.opts.left + w.opts.right) |-> SPACE]
        top == [i \in 1..w.opts.top |-> blankLine]
        bottom == [i \in 1..w.opts.bottom |-> blankLine]
    IN MarginJoin(top \o paddedLines \o bottom)

\* write without the closed test.
MarginWriterWriteUnguarded(w, s) ==
    [w EXCEPT !.buffer = @ \o s, !.call = "write", !.threw = FALSE]

\* write on a closed writer throws before touching the buffer.
MarginWriterWrite(w, s) ==
    IF w.closed
    THEN [w EXCEPT !.call = "write", !.threw = TRUE]
    ELSE [w EXCEPT !.buffer = @ \o s, !.call = "write", !.threw = FALSE]

\* The state close() leaves, history apart.
MarginClosed(w) ==
    IF w.closed THEN w
    ELSE [w EXCEPT !.result = MarginApplyMargins(w, w.buffer), !.closed = TRUE]

MarginWriterClose(w) ==
    [MarginClosed(w) EXCEPT !.call = "close", !.threw = FALSE]

\* toString() closes a writer that is still open.
MarginWriterToString(w) ==
    LET w1 == MarginClosed(w) IN
    [w1 EXCEPT !.call = "toString", !.threw = FALSE, !.returned = w1.result]

margin(s, top, bottom, left, right) ==
    MarginWriterToString(MarginWriterClose(MarginWriterWrite(
        MarginWriterNew(0, top, bottom, left, right), s))).returned

(***************************************************************************)
(* Writer instances side by side                                           *)
(***************************************************************************)
\* What the module level holds: the default arrays of wordwrap.ts, which
\* every WordWrapWriter built without options refers to.
ModuleNew ==
    [DEFAULT_BREAKPOINTS |-> DEFAULT_BREAKPOINTS,
     DEFAULT_NEWLINES |-> DEFAULT_NEWLINES]

InstanceLimit == 2

InstanceIndent == 1

\* new WordWrapWriter(2), new HardWrapWriter(2), new IndentWriter(1)
InstanceNew(kind) ==
    [kind |-> kind,
     w |-> CASE kind = "wordwrap" ->
                  WordWrapWriterNew(InstanceLimit, DEFAULT_BREAKPOINTS,
                                    DEFAULT_NEWLINES, TRUE)
             [] kind = "hardwrap" ->
                  HardWrapWriterNew(InstanceLimit, <<LF>>, TRUE, FALSE,
                                    DEFAULT_TAB_WIDTH)
             [] kind = "indent" -> IndentWriterNew(InstanceIndent)]

\* The writer as a call finds it: this.breakpoints and this.newline are the
\* module's arrays.
InstanceResolved(o, module) ==
    IF o.kind = "wordwrap"
    THEN [o.w EXCEPT !.breakpoints = module.DEFAULT_BREAKPOINTS,
                     !.newline = module.DEFAULT_NEWLINES]
    ELSE o.w

\* One call on one instance: write(s), or close() where the class has it.
InstanceApply(o, module, call) ==
    LET w == InstanceResolved(o, module) IN
    [o EXCEPT !.w =
        CASE o.kind = "wordwrap" /\ call.op = "write" ->
                WordWrapWriterWrite(w, call.s)
          [] o.kind = "wordwrap" /\ call.op = "close" -> WordWrapWriterClose(w)
          [] o.kind = "hardwrap" -> HardWrapWriterWrite(w, call.s)
          [] o.kind = "indent" -> IndentWriterWrite(w, call.s)]

InstanceToString(o) ==
    CASE o.kind = "wordwrap" -> WordWrapWriterToString(o.w)
      [] o.kind = "hardwrap" -> HardWrapWriterToString(o.w)
      [] o.kind = "indent" -> IndentWriterToString(o.w)

\* History: calls, the calls each instance served; order, whose turn each
\* call was.
HeapNew(kind1, kind2) ==
    [module |-> ModuleNew,
     objects |-> <<InstanceNew(kind1), InstanceNew(kind2)>>,
     calls |-> <<(<<>>), (<<>>)>>,
     order |-> <<>>]

\* The line width kept in one place for all instances.
HeapCallModuleLineLen(h, i, call) ==
    LET o == InstanceApply(h.objects[i], h.module, call)
        j == 3 - i
        other == h.objects[j]
    IN [h EXCEPT !.objects[i] = o,
                 !.objects[j] =
                     IF other.kind \in {"wordwrap", "hardwrap"}
                        /\ o.kind \in {"wordwrap", "hardwrap"}
                     THEN [other EXCEPT !.w.lineLen = o.w.lineLen]
                     ELSE other,
                 !.calls[i] = Append(@, call),
                 !.order = Append(@, i)]

\* A call on instance i: fields of i change, nothing else does.
HeapCall(h, i, call) ==
    [h EXCEPT !.objects[i] = InstanceApply(h.objects[i], h.module, call),
              !.calls[i] = Append(@, call),
              !.order = Append(@, i)]

(***************************************************************************)
(* The two style trackers side by side                                     *)
(***************************************************************************)
\* sink is the forward target of the AnsiPassthrough.  History: call, the
\* last method called on both; emitted, what that call appended to the
\* output of the AnsiBuffer (ab) and to the sink (ap).
TrackerNew ==
    [ab |-> AnsiBufferNew, ap |-> AnsiPassthroughNew, sink |-> <<>>,
     call |-> "new", emitted |-> [ab |-> <<>>, ap |-> <<>>]]

TrackerWrite(t, s) ==
    LET b == AnsiBufferWrite(t.ab, s)
        p == AnsiPassthroughWrite(t.ap, s)
    IN [ab |-> b, ap |-> p.p, sink |-> t.sink \o p.out, call |-> "write",
        emitted |-> [ab |-> SubSeq(b.output, Len(t.ab.output) + 1, Len(b.output)),
                     ap |-> p.out]]

TrackerResetAnsi(t) ==
    LET b == AnsiBufferResetAnsi(t.ab)
        fwd == AnsiPassthroughResetAnsi(t.ap)
    IN [ab |-> b, ap |-> t.ap, sink |-> t.sink \o fwd, call |-> "resetAnsi",
        emitted |-> [ab |-> SubSeq(b.output, Len(t.ab.output) + 1, Len(b.output)),
                     ap |-> fwd]]

(***************************************************************************)
(* The wrap Writer of wrap.ts (options object, forcefulNewline)            *)
(***************************************************************************)
\* The ansi module this draft imports: runeWidth is the East-Asian width of
\* the code point, 2 for a wide character and 1 for anything else.
WrapRuneWidth(c) == IF c >= 4352 THEN 2 ELSE 1

RECURSIVE wrapWidthFrom(_, _, _)
wrapWidthFrom(s, i, ansi) ==
    IF i > Len(s) THEN 0
    ELSE IF s[i] = ANSI_MARKER THEN wrapWidthFrom(s, i + 1, TRUE)
    ELSE IF ansi THEN wrapWidthFrom(s, i + 1, ~isAnsiTerminator(s[i]))
    ELSE WrapRuneWidth(s[i]) + wrapWidthFrom(s, i + 1, FALSE)

WrapPrintableRuneWidth(s) == wrapWidthFrom(s, 1, FALSE)

WrapWriterNew(limit, newline, keepNewlines, preserveSpace, tabWidth) ==
    [limit |-> limit, newline |-> newline, keepNewlines |-> keepNewlines,
     preserveSpace |-> preserveSpace, tabWidth |-> tabWidth,
     buf |-> <<>>, lineLen |-> 0, ansi |-> FALSE, forcefulNewline |-> FALSE]

\* addNewLine (lines 109-112).
WrapAddNewLine(w) == [w EXCEPT !.buf = @ \o w.newline, !.lineLen = 0]

\* isNewline (lines 185-193): a character of the newline string.
WrapIsNewline(w, c) == \E i \in 1..Len(w.newline) : w.newline[i] = c

\* isSpace (lines 198-200): the whitespace characters of the model.
WrapIsSpace(c) == c \in {SPACE, TAB, LF, CR}

\* Lines 123-129: tabs replaced by spaces, newlines removed on request.
RECURSIVE WrapPrepare(_, _)
WrapPrepare(w, s) ==
    IF s = <<>> THEN <<>>
    ELSE LET c == Head(s) IN
         (IF c = TAB THEN Spaces(w.tabWidth)
          ELSE IF ~w.keepNewlines /\ c = LF THEN <<>>
          ELSE <<c>>) \o WrapPrepare(w, Tail(s))

\* One iteration of the loop of lines 142-178.
WrapPut(w, c) ==
    IF c = ANSI_MARKER
    THEN [w EXCEPT !.ansi = TRUE, !.buf = Append(@, c)]
    ELSE IF w.ansi
    THEN [w EXCEPT !.ansi = ~isAnsiTerminator(c), !.buf = Append(@, c)]
    ELSE IF WrapIsNewline(w, c)
    THEN [WrapAddNewLine(w) EXCEPT !.forcefulNewline = FALSE]
    ELSE LET charWidth == WrapRuneWidth(c)
             w1 == IF w.lineLen + charWidth > w.limit
                   THEN [WrapAddNewLine(w) EXCEPT !.forcefulNewline = TRUE]
                   ELSE w
         IN IF w1.lineLen = 0
            THEN IF w1.forcefulNewline /\ ~w1.preserveSpace /\ WrapIsSpace(c)
                 THEN w1
                 ELSE [w1 EXCEPT !.lineLen = @ + charWidth,
                                 !.buf = Append(@, c)]
            ELSE [w1 EXCEPT !.forcefulNewline = FALSE,
                            !.lineLen = @ + charWidth,
                            !.buf = Append(@, c)]

RECURSIVE WrapLoop(_, _)
WrapLoop(w, s) ==
    IF s = <<>> THEN w ELSE WrapLoop(WrapPut(w, Head(s)), Tail(s))

\* Writer.write (lines 118-179): a chunk that fits the line is appended
\* whole, anything else goes through the loop.
WrapWriterWrite(w, text) ==
    LET s == WrapPrepare(w, text)
        width == WrapPrintableRuneWidth(s)
    IN IF w.limit <= 0 \/ w.lineLen + width <= w.limit
       THEN [w EXCEPT !.lineLen = @ + width, !.buf = @ \o s]
       ELSE WrapLoop(w, s)

WrapWriterToString(w) == w.buf

wrapString(text, limit, newline, keepNewlines, preserveSpace, tabWidth) ==
    WrapWriterToString(WrapWriterWrite(
        WrapWriterNew(limit, newline, keepNewlines, preserveSpace, tabWidth),
        text))

(***************************************************************************)
(* PadWriter                                                               *)
(***************************************************************************)
UPPER_A == 65

UPPER_Z == 90

LOWER_Z == 122

\* Lines 70-73: the test that ends a sequence in PadWriter.write.
PadIsTerminator(c) ==
    (c >= UPPER_A /\ c <= UPPER_Z) \/ (c >= LETTER_A /\ c <= LOWER_Z)

\* closed (history): whether close() was called.
PadWriterNew(width) ==
    [width |-> width, buf |-> <<>>, cache |-> <<>>, lineLen |-> 0,
     ansi |-> FALSE, closed |-> FALSE]

\* padLine (lines 86-95), with the default padding of spaces.
PadLine(w) ==
    IF w.width > 0 /\ w.lineLen > 0 /\ w.lineLen < w.width
    THEN [w EXCEPT !.buf = @ \o Spaces(w.width - w.lineLen)]
    ELSE w

\* One iteration of the loop of PadWriter.write (lines 66-83).
PadPut(w, c) ==
    LET w1 == IF c = ANSI_MARKER THEN [w EXCEPT !.ansi = TRUE]
              ELSE IF w.ansi
              THEN [w EXCEPT !.ansi = ~PadIsTerminator(c)]
              ELSE LET counted == [w EXCEPT !.lineLen = @ + runeWidth(c)]
                   IN IF c = LF
                      THEN [PadLine(counted) EXCEPT !.lineLen = 0]
                      ELSE counted
    IN [w1 EXCEPT !.buf = Append(@, c)]

RECURSIVE PadWriterWrite(_, _)
PadWriterWrite(w, content) ==
    IF content = <<>> THEN w
    ELSE PadWriterWrite(PadPut(w, Head(content)), Tail(content))

\* close (lines 100-109).
PadWriterClose(w) ==
    LET w1 == IF w.lineLen # 0 THEN PadLine(w) ELSE w
    IN [w1 EXCEPT !.cache = w1.buf, !.buf = <<>>, !.lineLen = 0,
                  !.ansi = FALSE, !.closed = TRUE]

PadWriterToString(w) == w.cache

pad(s, width) ==
    PadWriterToString(PadWriterClose(PadWriterWrite(PadWriterNew(width), s)))

(***************************************************************************)
(* State                                                                   *)
(***************************************************************************)
VARIABLES
    tw,        \* the TruncateWriter
    hw,        \* the HardWrapWriter
    ww,        \* the WordWrapWriter
    iw,        \* the IndentWriter
    mw,        \* the margin writer
    heap,      \* two writer instances and what the module level holds
    tracker,   \* an AnsiBuffer and an AnsiPassthrough fed the same calls
    wr,        \* the wrap Writer of wrap.ts
    pw,        \* the PadWriter
    active,    \* which writer this run feeds
    input,     \* history: the concatenation of the chunks written so far
    budget     \* how many more pieces of input this run may write

vars == <<tw, hw, ww, iw, mw, heap, tracker, wr, pw, active, input, budget>>

\* The objects no writer of the first four touches.
extra == <<mw, heap, tracker, wr, pw>>

TruncateWriterIdle == TruncateWriterNew(0, <<>>)

HardWrapWriterIdle == HardWrapWriterNew(0, <<LF>>, TRUE, FALSE, DEFAULT_TAB_WIDTH)

WordWrapWriterIdle == WordWrapWriterNew(0, DEFAULT_BREAKPOINTS, DEFAULT_NEWLINES, TRUE)

IndentWriterIdle == IndentWriterNew(0)

MarginWriterIdle == MarginWriterNew(0, 0, 0, 0, 0)

HeapIdle == HeapNew("hardwrap", "hardwrap")

WrapWriterIdle == WrapWriterNew(0, <<LF>>, TRUE, FALSE, DEFAULT_TAB_WIDTH)

PadWriterIdle == PadWriterNew(0)

DraftsIdle == wr = WrapWriterIdle /\ pw = PadWriterIdle

ExtraIdle ==
    mw = MarginWriterIdle /\ heap = HeapIdle /\ tracker = TrackerNew /\ DraftsIdle

(***************************************************************************)
(* Truncate: specification                                                 *)
(***************************************************************************)
\* A chunk is a sequence of pieces: single characters, and the reset
\* sequence as a whole.
TruncAlphabet == {ANSI_MARKER, SGR_FINAL, LETTER_A, CJK}

TruncPieces == {<<c>> : c \in TruncAlphabet} \cup {ANSI_RESET}

\* Tails: none, narrow, wide, and a styled one.
Tails == {<<>>, <<LETTER_A>>, <<CJK>>, <<ANSI_MARKER, SGR_FINAL, LETTER_A>>}

Widths == {0, 1, 2, 3}

TruncStart(n) ==
    /\ active = "truncate"
    /\ \E width \in Widths, tail \in Tails :
          tw = TruncateWriterNew(width, tail)
    /\ hw = HardWrapWriterIdle
    /\ ww = WordWrapWriterIdle
    /\ iw = IndentWriterIdle
    /\ ExtraIdle
    /\ input = <<>>
    /\ budget = n

TruncInit == TruncStart(MaxPieces)

TruncWrite ==
    /\ active = "truncate"
    /\ \E ps \in SeqsUpTo(TruncPieces, budget) :
          /\ tw' = TruncateWriterWrite(tw, Flatten(ps))
          /\ input' = input \o Flatten(ps)
          /\ budget' = budget - Len(ps)
    /\ UNCHANGED <<hw, ww, iw, active, extra>>

TruncNext == TruncWrite

SpecTruncate == TruncInit /\ [][TruncNext]_vars

(***************************************************************************)
(* Hard-wrap: specifications                                               *)
(***************************************************************************)
HardWrapAlphabet == {ANSI_MARKER, SGR_FINAL, SPACE, TAB, LF, CJK}

HardWrapLimits == {0, 1, 2}

HardWrapTabWidths == {0, DEFAULT_TAB_WIDTH}

HardWrapStart(n) ==
    /\ active = "hardwrap"
    /\ \E limit \in HardWrapLimits, keepNewlines \in BOOLEAN,
          preserveSpace \in BOOLEAN, tabWidth \in HardWrapTabWidths :
          hw = HardWrapWriterNew(limit, <<LF>>, keepNewlines, preserveSpace, tabWidth)
    /\ tw = TruncateWriterIdle
    /\ ww = WordWrapWriterIdle
    /\ iw = IndentWriterIdle
    /\ ExtraIdle
    /\ input = <<>>
    /\ budget = n

HardWrapInit == HardWrapStart(MaxHardWrapInput)

HardWrapWrite(alphabet) ==
    /\ active = "hardwrap"
    /\ \E s \in SeqsUpTo(alphabet, budget) :
          /\ hw' = HardWrapWriterWrite(hw, s)
          /\ input' = input \o s
          /\ budget' = budget - Len(s)
    /\ UNCHANGED <<tw, ww, iw, active, extra>>

HardWrapNext == HardWrapWrite(HardWrapAlphabet)

SpecHardWrap == HardWrapInit /\ [][HardWrapNext]_vars

\* The pass-through configuration (limit 0, newlines kept, tabs not
\* expanded), over an alphabet that also has the carriage return.
HardWrapNoopAlphabet == HardWrapAlphabet \cup {CR, LBRACKET}

HardWrapNoopInit ==
    /\ active = "hardwrap"
    /\ \E preserveSpace \in BOOLEAN :
          hw = HardWrapWriterNew(0, <<LF>>, TRUE, preserveSpace, 0)
    /\ tw = TruncateWriterIdle
    /\ ww = WordWrapWriterIdle
    /\ iw = IndentWriterIdle
    /\ ExtraIdle
    /\ input = <<>>
    /\ budget = MaxHardWrapInput

HardWrapNoopNext == HardWrapWrite(HardWrapNoopAlphabet)

SpecHardWrapNoop == HardWrapNoopInit /\ [][HardWrapNoopNext]_vars

(***************************************************************************)
(* Word-wrap: specifications                                               *)
(***************************************************************************)
WordWrapAlphabet == {ANSI_MARKER, SGR_FINAL, SPACE, HYPHEN, LF, TAB, CJK}

WordWrapLimits == {0, 1, 2, 3}

WordWrapStart(n) ==
    /\ active = "wordwrap"
    /\ \E limit \in WordWrapLimits, keepNewlines \in BOOLEAN :
          ww = WordWrapWriterNew(limit, DEFAULT_BREAKPOINTS, DEFAULT_NEWLINES,
                                 keepNewlines)
    /\ tw = TruncateWriterIdle
    /\ hw = HardWrapWriterIdle
    /\ iw = IndentWriterIdle
    /\ ExtraIdle
    /\ input = <<>>
    /\ budget = n

WordWrapInit == WordWrapStart(MaxWordWrapInput)

\* A client that writes its chunks and then closes.
WordWrapWrite ==
    /\ active = "wordwrap"
    /\ ~ww.closed
    /\ \E s \in SeqsUpTo(WordWrapAlphabet, budget) :
          /\ ww' = WordWrapWriterWrite(ww, s)
          /\ input' = input \o s
          /\ budget' = budget - Len(s)
    /\ UNCHANGED <<tw, hw, iw, active, extra>>

WordWrapClose ==
    /\ active = "wordwrap"
    /\ ~ww.closed
    /\ ww' = WordWrapWriterClose(ww)
    /\ UNCHANGED <<tw, hw, iw, active, input, budget, extra>>

WordWrapNext == WordWrapWrite \/ WordWrapClose

SpecWordWrap == WordWrapInit /\ [][WordWrapNext]_vars

\* The same client of a writer constructed with the default newline set or
\* with one that also holds the tab.
WordWrapNewlineSets == {DEFAULT_NEWLINES, {LF, TAB}}

WordWrapNewlinesInit ==
    /\ active = "wordwrap"
    /\ \E limit \in WordWrapLimits, newline \in WordWrapNewlineSets,
          keepNewlines \in BOOLEAN :
          ww = WordWrapWriterNew(limit, DEFAULT_BREAKPOINTS, newline,
                                 keepNewlines)
    /\ tw = TruncateWriterIdle
    /\ hw = HardWrapWriterIdle
    /\ iw = IndentWriterIdle
    /\ ExtraIdle
    /\ input = <<>>
    /\ budget = MaxWordWrapInput

SpecWordWrapNewlines == WordWrapNewlinesInit /\ [][WordWrapNext]_vars

\* A client that also calls write after close: nothing in the class stops it.
WordWrapLateWrite ==
    /\ active = "wordwrap"
    /\ ww.closed
    /\ \E s \in SeqsUpTo(WordWrapAlphabet, budget) :
          /\ ww' = WordWrapWriterWrite(ww, s)
          /\ input' = input \o s
          /\ budget' = budget - Len(s)
    /\ UNCHANGED <<tw, hw, iw, active, extra>>

WordWrapAnyOrderInit == WordWrapStart(MaxLateInput)

WordWrapAnyOrderNext == WordWrapWrite \/ WordWrapClose \/ WordWrapLateWrite

SpecWordWrapAnyOrder == WordWrapAnyOrderInit /\ [][WordWrapAnyOrderNext]_vars

(***************************************************************************)
(* Indent: specification                                                   *)
(***************************************************************************)
IndentAlphabet == {ANSI_MARKER, SGR_FINAL, LETTER_A, LF}

IndentPieces == {<<c>> : c \in IndentAlphabet} \cup {ANSI_RESET}

Indents == {0, 1, 2}

IndentStart(n) ==
    /\ active = "indent"
    /\ \E spaces \in Indents : iw = IndentWriterNew(spaces)
    /\ tw = TruncateWriterIdle
    /\ hw = HardWrapWriterIdle
    /\ ww = WordWrapWriterIdle
    /\ ExtraIdle
    /\ input = <<>>
    /\ budget = n

IndentInit == IndentStart(MaxIndentPieces)

IndentWrite ==
    /\ active = "indent"
    /\ \E ps \in SeqsUpTo(IndentPieces, budget) :
          /\ iw' = IndentWriterWrite(iw, Flatten(ps))
          /\ input' = input \o Flatten(ps)
          /\ budget' = budget - Len(ps)
    /\ UNCHANGED <<tw, hw, ww, active, extra>>

IndentNext == IndentWrite

SpecIndent == IndentInit /\ [][IndentNext]_vars

(***************************************************************************)
(* The four writers, one of them per run                                   *)
(***************************************************************************)
WritersInit ==
    \/ TruncStart(MaxAnyInput)
    \/ HardWrapStart(MaxAnyInput)
    \/ WordWrapStart(MaxAnyInput)
    \/ IndentStart(MaxAnyInput)

WritersNext ==
    \/ TruncWrite
    \/ HardWrapWrite(HardWrapAlphabet)
    \/ WordWrapWrite
    \/ WordWrapClose
    \/ IndentWrite

SpecWriters == WritersInit /\ [][WritersNext]_vars

(***************************************************************************)
(* Margin: specification                                                   *)
(***************************************************************************)
MarginAlphabet == {ANSI_MARKER, SGR_FINAL, LETTER_A, LF}

MarginWidths == {0, 3}

MarginSizes == {0, 1}

MarginInit ==
    /\ active = "margin"
    /\ \E width \in MarginWidths, top \in MarginSizes, left \in MarginSizes,
          right \in MarginSizes :
          mw = MarginWriterNew(width, top, top, left, right)
    /\ heap = HeapIdle
    /\ tracker = TrackerNew
    /\ tw = TruncateWriterIdle
    /\ hw = HardWrapWriterIdle
    /\ ww = WordWrapWriterIdle
    /\ iw = IndentWriterIdle
    /\ DraftsIdle
    /\ input = <<>>
    /\ budget = MaxMarginInput

\* write, on an open or on a closed writer; input keeps what was accepted.
MarginWrite ==
    /\ active = "margin"
    /\ \E s \in SeqsUpTo(MarginAlphabet, budget) :
          /\ mw' = MarginWriterWrite(mw, s)
          /\ input' = IF mw.closed THEN input ELSE input \o s
          /\ budget' = budget - Len(s)
    /\ UNCHANGED <<tw, hw, ww, iw, wr, pw, heap, tracker, active>>

MarginClose ==
    /\ active = "margin"
    /\ mw' = MarginWriterClose(mw)
    /\ UNCHANGED <<tw, hw, ww, iw, wr, pw, heap, tracker, active, input, budget>>

MarginToString ==
    /\ active = "margin"
    /\ mw' = MarginWriterToString(mw)
    /\ UNCHANGED <<tw, hw, ww, iw, wr, pw, heap, tracker, active, input, budget>>

MarginNext == MarginWrite \/ MarginClose \/ MarginToString

SpecMargin == MarginInit /\ [][MarginNext]_vars

(***************************************************************************)
(* Two instances, their calls interleaved: specification                   *)
(***************************************************************************)
InstanceKinds == {"wordwrap", "hardwrap", "indent"}

InstanceChunks ==
    {<<LETTER_A>>, <<SPACE>>, <<CJK, ANSI_MARKER>>, <<SGR_FINAL, LF>>}

InstancesInit ==
    /\ active = "instances"
    /\ \E kind1 \in InstanceKinds, kind2 \in InstanceKinds :
          heap = HeapNew(kind1, kind2)
    /\ tw = TruncateWriterIdle
    /\ hw = HardWrapWriterIdle
    /\ ww = WordWrapWriterIdle
    /\ iw = IndentWriterIdle
    /\ DraftsIdle
    /\ mw = MarginWriterIdle
    /\ tracker = TrackerNew
    /\ input = <<>>
    /\ budget = MaxInstanceCalls

InstanceWrite ==
    /\ active = "instances"
    /\ budget > 0
    /\ \E i \in {1, 2}, s \in InstanceChunks :
          heap' = HeapCall(heap, i, [op |-> "write", s |-> s])
    /\ budget' = budget - 1
    /\ UNCHANGED <<tw, hw, ww, iw, wr, pw, mw, tracker, active, input>>

InstanceClose ==
    /\ active = "instances"
    /\ budget > 0
    /\ \E i \in {1, 2} :
          /\ heap.objects[i].kind = "wordwrap"
          /\ heap' = HeapCall(heap, i, [op |-> "close", s |-> <<>>])
    /\ budget' = budget - 1
    /\ UNCHANGED <<tw, hw, ww, iw, wr, pw, mw, tracker, active, input>>

InstancesNext == InstanceWrite \/ InstanceClose

SpecInstances == InstancesInit /\ [][InstancesNext]_vars

(***************************************************************************)
(* Style trackers: specification                                           *)
(***************************************************************************)
TrackerAlphabet == {ANSI_MARKER, LBRACKET, ZERO, SGR_FINAL, LETTER_A}

TrackerInit ==
    /\ active = "tracker"
    /\ tracker = TrackerNew
    /\ tw = TruncateWriterIdle
    /\ hw = HardWrapWriterIdle
    /\ ww = WordWrapWriterIdle
    /\ iw = IndentWriterIdle
    /\ DraftsIdle
    /\ mw = MarginWriterIdle
    /\ heap = HeapIdle
    /\ input = <<>>
    /\ budget = MaxTrackerInput

TrackerWriteStep ==
    /\ active = "tracker"
    /\ \E s \in SeqsUpTo(TrackerAlphabet, budget) :
          /\ tracker' = TrackerWrite(tracker, s)
          /\ input' = input \o s
          /\ budget' = budget - Len(s)
    /\ UNCHANGED <<tw, hw, ww, iw, wr, pw, mw, heap, active>>

TrackerResetStep ==
    /\ active = "tracker"
    /\ budget > 0
    /\ tracker' = TrackerResetAnsi(tracker)
    /\ budget' = budget - 1
    /\ UNCHANGED <<tw, hw, ww, iw, wr, pw, mw, heap, active, input>>

TrackerNext == TrackerWriteStep \/ TrackerResetStep

SpecTracker == TrackerInit /\ [][TrackerNext]_vars

(***************************************************************************)
(* The wrap Writer: specification                                          *)
(***************************************************************************)
WrapAlphabet == {ANSI_MARKER, SGR_FINAL, SPACE, LF, CJK}

WrapLimits == {1, 2, 3}

WrapInit ==
    /\ active = "wrap"
    /\ \E limit \in WrapLimits, keepNewlines \in BOOLEAN,
          preserveSpace \in BOOLEAN :
          wr = WrapWriterNew(limit, <<LF>>, keepNewlines, preserveSpace,
                             DEFAULT_TAB_WIDTH)
    /\ pw = PadWriterIdle
    /\ tw = TruncateWriterIdle
    /\ hw = HardWrapWriterIdle
    /\ ww = WordWrapWriterIdle
    /\ iw = IndentWriterIdle
    /\ mw = MarginWriterIdle
    /\ heap = HeapIdle
    /\ tracker = TrackerNew
    /\ input = <<>>
    /\ budget = MaxWrapInput

WrapWrite ==
    /\ active = "wrap"
    /\ \E s \in SeqsUpTo(WrapAlphabet, budget) :
          /\ wr' = WrapWriterWrite(wr, s)
          /\ input' = input \o s
          /\ budget' = budget - Len(s)
    /\ UNCHANGED <<tw, hw, ww, iw, mw, heap, tracker, pw, active>>

SpecWrap == WrapInit /\ [][WrapWrite]_vars

(***************************************************************************)
(* PadWriter: specification                                                *)
(***************************************************************************)
PadAlphabet == {ANSI_MARKER, AT_SIGN, LETTER_A, LF, CJK}

PadWidths == {0, 2, 3, 4}

PadInit ==
    /\ active = "pad"
    /\ \E width \in PadWidths : pw = PadWriterNew(width)
    /\ wr = WrapWriterIdle
    /\ tw = TruncateWriterIdle
    /\ hw = HardWrapWriterIdle
    /\ ww = WordWrapWriterIdle
    /\ iw = IndentWriterIdle
    /\ mw = MarginWriterIdle
    /\ heap = HeapIdle
    /\ tracker = TrackerNew
    /\ input = <<>>
    /\ budget = MaxPadInput

PadWrite ==
    /\ active = "pad"
    /\ ~pw.closed
    /\ \E s \in SeqsUpTo(PadAlphabet, budget) :
          /\ pw' = PadWriterWrite(pw, s)
          /\ input' = input \o s
          /\ budget' = budget - Len(s)
    /\ UNCHANGED <<tw, hw, ww, iw, mw, heap, tracker, wr, active>>

PadClose ==
    /\ active = "pad"
    /\ ~pw.closed
    /\ pw' = PadWriterClose(pw)
    /\ UNCHANGED <<tw, hw, ww, iw, mw, heap, tracker, wr, active, input, budget>>

PadNext == PadWrite \/ PadClose

SpecPad == PadInit /\ [][PadNext]_vars

(***************************************************************************)
(* Reference notions the claims are stated with                            *)
(***************************************************************************)
\* The last-style of a text: the most recently completed m-terminated
\* sequence that is not the reset and is not followed by a completed reset.
\* seq is the sequence being read (empty outside a sequence).
RECURSIVE activeStyleFrom(_, _, _, _)
activeStyleFrom(str, i, seq, last) ==
    IF i > Len(str) THEN last
    ELSE LET c == str[i] IN
         IF c = 27 THEN activeStyleFrom(str, i + 1, Append(seq, c), last)
         ELSE IF seq = <<>> THEN activeStyleFrom(str, i + 1, seq, last)
         ELSE IF (c >= 64 /\ c <= 90) \/ (c >= 97 /\ c <= 122)
         THEN activeStyleFrom(str, i + 1, <<>>,
                 IF Append(seq, c) = <<27, 91, 48, 109>> THEN <<>>
                 ELSE IF c = 109 THEN Append(seq, c)
                 ELSE last)
         ELSE activeStyleFrom(str, i + 1, Append(seq, c), last)

ActiveStyle(str) == activeStyleFrom(str, 1, <<>>, <<>>)

\* The lines of str: the texts between consecutive occurrences of sep.
RECURSIVE linesFrom(_, _, _, _)
linesFrom(str, sep, i, cur) ==
    IF i > Len(str) THEN <<cur>>
    ELSE IF i + Len(sep) - 1 <= Len(str) /\ SubSeq(str, i, i + Len(sep) - 1) = sep
    THEN <<cur>> \o linesFrom(str, sep, i + Len(sep), <<>>)
    ELSE linesFrom(str, sep, i + 1, Append(cur, str[i]))

Lines(str, sep) == linesFrom(str, sep, 1, <<>>)

\* The words of str: the maximal runs of characters that are neither
\* breakpoints nor newline characters, the characters of an escape sequence
\* (from ESC to its terminator) belonging to the word they are in.
RECURSIVE wordsFrom(_, _, _, _, _)
wordsFrom(str, seps, i, inSeq, cur) ==
    IF i > Len(str) THEN (IF cur = <<>> THEN <<>> ELSE <<cur>>)
    ELSE LET c == str[i] IN
         IF c = 27 THEN wordsFrom(str, seps, i + 1, TRUE, Append(cur, c))
         ELSE IF inSeq
         THEN wordsFrom(str, seps, i + 1,
                        ~((c >= 64 /\ c <= 90) \/ (c >= 97 /\ c <= 122)),
                        Append(cur, c))
         ELSE IF c \in seps
         THEN (IF cur = <<>> THEN <<>> ELSE <<cur>>)
                 \o wordsFrom(str, seps, i + 1, FALSE, <<>>)
         ELSE wordsFrom(str, seps, i + 1, FALSE, Append(cur, c))

Words(str, seps) == wordsFrom(str, seps, 1, FALSE, <<>>)

IsSubstring(w, str) ==
    \E i \in 0..(Len(str) - Len(w)) : SubSeq(str, i + 1, i + Len(w)) = w

Occurs(c, str) == \E i \in 1..Len(str) : str[i] = c

(***************************************************************************)
(* Truncate: claims                                                        *)
(***************************************************************************)
twOut == TruncateWriterToString(tw)

twOneShot == truncate(input, tw.width, tw.tail)

twTailWidth == printableRuneWidth(tw.tail)

C2_StreamingTruncate ==
    tw.width >= twTailWidth =>
        /\ printableRuneWidth(twOut) <= tw.width
        /\ twOut = twOneShot

\* C3: an input, with ANSI sequences terminated or not, whose printable
\* width is <= width - tailWidth is returned by truncate character for
\* character, with no tail.
C3_TruncateIdentityWhenFits ==
    (/\ tw.width >= twTailWidth
     /\ printableRuneWidth(input) <= tw.width - twTailWidth)
    => twOneShot = input

OutsideSequenceAt(str, p) == ~endsInAnsi(SubSeq(str, 1, p - 1), 1, FALSE)

\* C5: in HardWrapWriter, WordWrapWriter, TruncateWriter and IndentWriter
\* nothing the writer adds (wrap newline, indentation, tail, ESC[0m reset,
\* restored style) and no truncation cut lies between an ESC and the
\* terminator of its sequence: the output before each added piece, and the
\* output kept before the cut, ends outside a sequence.
C5_AnsiAtomicity ==
    /\ \A p \in hw.inj : OutsideSequenceAt(hw.buf, p)
    /\ \A k \in ww.inj :
          ~endsInAnsi(Flatten(SubSeq(ww.buf, 1, k - 1)), 1, FALSE)
    /\ \A p \in iw.inj : OutsideSequenceAt(iw.buf, p)
    /\ tw.cut >= 0 =>
          /\ OutsideSequenceAt(twOut, tw.cut + 1)
          /\ IsPrefix(SubSeq(twOut, 1, tw.cut), input)
          /\ \/ twOut = SubSeq(twOut, 1, tw.cut) \o tw.tail
             \/ /\ twOut = SubSeq(twOut, 1, tw.cut) \o tw.tail \o ANSI_RESET
                /\ OutsideSequenceAt(twOut, Len(twOut) - 3)

\* The hard-wrap writer inserted a newline right after a complete sequence.
C5_Witness ==
    \E p \in hw.inj :
       /\ p > 2
       /\ Occurs(ANSI_MARKER, SubSeq(hw.buf, 1, p - 1))
       /\ isAnsiTerminator(hw.buf[p - 1])

(***************************************************************************)
(* Word-wrap: claims                                                       *)
(***************************************************************************)
wwOut == WordWrapWriterToString(ww)

C10_WriteAfterCloseFails ==
    ww.late => (ww.threw /\ wwOut = ww.closedBuf)

(***************************************************************************)
(* Hard-wrap: claims                                                       *)
(***************************************************************************)
hwOut == HardWrapWriterToString(hw)

hwFits == \A i \in 1..Len(input) : runeWidth(input[i]) <= hw.limit

\* C7 as stated: with limit > 0 and no input character wider than the
\* limit, after any writes every text between consecutive newline strings
\* of toString() has printable width <= limit.
C7_LineBoundBetweenNewlines ==
    (hw.limit > 0 /\ hwFits) =>
        LET lines == Lines(hwOut, hw.newline) IN
        \A i \in 1..Len(lines) : printableRuneWidth(lines[i]) <= hw.limit

\* C7 amended: with limit > 0 and no input character wider than the limit,
\* after any writes every line of toString() without its escape sequences
\* has width <= limit; a newline character inside an escape sequence belongs
\* to the sequence and ends no line.
C7_LineBoundOutsideSequences ==
    (hw.limit > 0 /\ hwFits) =>
        LET lines == Lines(stripAnsi(hwOut), hw.newline) IN
        \A i \in 1..Len(lines) : stringWidth(lines[i]) <= hw.limit

\* A wide character did not fit the rest of the line: the writer wrapped
\* before it and left the line narrower than the limit.
C7_Witness ==
    /\ hw.limit = 2
    /\ hwFits
    /\ \E p \in hw.inj :
          /\ p > 1
          /\ p < Len(hw.buf)
          /\ hw.buf[p + 1] = CJK
          /\ stringWidth(Lines(stripAnsi(hwOut), hw.newline)[1]) = 1

\* C8: with limit 0, keepNewlines true, the default newline and tabWidth 0,
\* hardwrap(s, 0) = s for every s over printable characters, spaces, tabs,
\* ESC, parameter and terminator characters, LF and CR.
C8_HardWrapNoop ==
    (hw.limit = 0 /\ hw.keepNewlines /\ hw.tabWidth = 0 /\ hw.newline = <<LF>>)
    => hardwrap(input, hw.limit, hw.newline, hw.keepNewlines,
                hw.preserveSpace, hw.tabWidth) = input

(***************************************************************************)
(* Margin writer: claims                                                   *)
(***************************************************************************)
\* C11: after close() on a margin writer, write(s) throws and toString()
\* returns the same value before and after the failed write; a second
\* close() changes nothing.  As a step property: from a closed writer, a
\* write step ends by throwing, and a write or close step leaves buffer,
\* result, closed flag and the value of toString() as they were.
C11_MarginWriteAfterClose ==
    [][(mw.closed /\ mw'.call \in {"write", "close"}) =>
          /\ (mw'.call = "write" => mw'.threw)
          /\ mw'.buffer = mw.buffer
          /\ mw'.result = mw.result
          /\ mw'.closed
          /\ MarginWriterToString(mw').returned
                = MarginWriterToString(mw).returned]_vars

\* A write with content was refused by a closed writer that holds margins.
C11_Witness ==
    /\ mw.closed
    /\ mw.call = "write"
    /\ mw.threw
    /\ mw.buffer # <<>>
    /\ mw.result # mw.buffer
    /\ budget < MaxMarginInput - Len(mw.buffer)

(***************************************************************************)
(* Indent: claims                                                          *)
(***************************************************************************)
iwOut == IndentWriterToString(iw)

\* s with n spaces before its first character and after every newline that
\* another character follows.
RECURSIVE indentedFrom(_, _, _)
indentedFrom(s, n, i) ==
    IF i > Len(s) THEN <<>>
    ELSE (IF i = 1 \/ s[i - 1] = 10 THEN [k \in 1..n |-> 32] ELSE <<>>)
            \o <<s[i]>> \o indentedFrom(s, n, i + 1)

Indented(s, n) == indentedFrom(s, n, 1)

iwAtLineStart == ~iw.skipIndent /\ ~iw.inAnsi

\* C13: when the first plain character c of a line arrives while a
\* non-reset SGR style is active, IndentWriter appends, in this order,
\* ESC[0m, the indentation, the last-style sequence verbatim, then c; a
\* sequence that arrives before the first plain character of the line is
\* appended as it is, before any reset, and leaves the indentation pending.
C13_IndentResetRestoreOrder ==
    iwAtLineStart =>
        /\ ActiveStyle(input) # <<>> =>
              \A c \in {LETTER_A, LF} :
                 IndentWriterToString(IndentWriterWrite(iw, <<c>>))
                    = iwOut \o ANSI_RESET \o [k \in 1..iw.indent |-> SPACE]
                            \o ActiveStyle(input) \o <<c>>
        /\ \A seq \in {<<ANSI_MARKER, SGR_FINAL>>, <<ANSI_MARKER, LETTER_A>>} :
              LET w == IndentWriterWrite(iw, seq) IN
              /\ IndentWriterToString(w) = iwOut \o seq
              /\ ~w.skipIndent

(***************************************************************************)
(* Streaming and one-shot: claims                                          *)
(***************************************************************************)
\* C14: however the input is split into chunks, writing the chunks one by
\* one to a WordWrapWriter and then calling close() gives the toString() of
\* wordwrap(input, limit, options): the pending word, the pending space, the
\* line width and the in-sequence state carry across write calls.
C14_WordWrapChunkIndependence ==
    ww.closed =>
        wwOut = wordwrap(input, ww.limit, ww.breakpoints, ww.newline,
                         ww.keepNewlines)

\* A closed writer that wrapped, one of whose writes began inside pending
\* material, on input with a sequence.
C14_Witness ==
    /\ ww.closed
    /\ ww.split
    /\ ww.inj # {}
    /\ Occurs(ANSI_MARKER, input)

\* C15: after the k-th write to a HardWrapWriter, toString() is
\* hardwrap(concatenation of the first k chunks) with the same options; no
\* close step is needed.
C15_HardWrapValidAfterEachWrite ==
    hwOut = hardwrap(input, hw.limit, hw.newline, hw.keepNewlines,
                     hw.preserveSpace, hw.tabWidth)

\* A write resumed a line already begun, and a later character wrapped.
C15_Witness ==
    /\ hw.resumed
    /\ hw.limit = 2
    /\ hw.inj # {}
    /\ Len(input) = MaxHardWrapInput
    /\ Occurs(ANSI_MARKER, input)

(***************************************************************************)
(* Instance isolation: claim                                               *)
(***************************************************************************)
\* What an instance of the kind gives when it serves the calls alone.
RECURSIVE aloneFrom(_, _)
aloneFrom(o, calls) ==
    IF calls = <<>> THEN o
    ELSE aloneFrom(InstanceApply(o, ModuleNew, Head(calls)), Tail(calls))

Alone(kind, calls) == InstanceToString(aloneFrom(InstanceNew(kind), calls))

C18_ResetClearsPending ==
    [][tracker'.call = "resetAnsi" =>
          /\ tracker'.emitted.ab
                = (IF tracker.ab.seqChanged THEN ANSI_RESET ELSE <<>>)
          /\ ~tracker'.ab.seqChanged
          /\ tracker'.emitted.ap
                = (IF tracker.ap.seqchanged THEN ANSI_RESET ELSE <<>>)
          /\ ~tracker'.ap.seqchanged]_vars

\* C19: a completed sequence whose terminator is not 'm' changes neither
\* the last style nor the pending flag.  So when the input so far ends
\* outside a sequence and holds no style (the tracker is fresh, or every
\* style was followed by ESC[0m), whatever other sequences it holds:
\* getLastSequence() is empty on both trackers, a following resetAnsi()
\* emits nothing on either, and an IndentWriter that read the same input and
\* still owes the line its indentation writes the indentation and the next
\* plain character with no ESC[0m before them.
C19_NonSgrIsNoStyleChange ==
    (~tracker.ab.inAnsi /\ ActiveStyle(input) = <<>>) =>
        /\ AnsiBufferGetLastSequence(tracker.ab) = <<>>
        /\ AnsiPassthroughGetLastSequence(tracker.ap) = <<>>
        /\ TrackerResetAnsi(tracker).emitted = [ab |-> <<>>, ap |-> <<>>]
        /\ LET w == IndentWriterWrite(IndentWriterNew(1), input) IN
           ~w.skipIndent =>
               IndentWriterToString(IndentWriterWrite(w, <<LETTER_A>>))
                  = IndentWriterToString(w) \o <<SPACE, LETTER_A>>

(***************************************************************************)
(* Word-wrap: breakpoint characters                                        *)
(***************************************************************************)
\* The characters of str that are neither whitespace nor newlines.
RECURSIVE inkFrom(_, _)
inkFrom(str, i) ==
    IF i > Len(str) THEN <<>>
    ELSE (IF str[i] \in {32, 9, 10} THEN <<>> ELSE <<str[i]>>)
            \o inkFrom(str, i + 1)

Ink(str) == inkFrom(str, 1)

\* C20: every non-whitespace breakpoint character read (the hyphen by
\* default) is appended to the output on the current line, so that after
\* close() the non-whitespace, non-newline characters of the output are, in
\* order, those of the input.
C20_BreakpointsKept ==
    ww.closed => Ink(wwOut) = Ink(input)

(***************************************************************************)
(* Word-wrap: finalization and flush rules                                 *)
(***************************************************************************)
\* C21: with keepNewlines false, after close() the string toString()
\* returns never ends with a space or a tab, whatever the input.
C21_NoTrailingWhitespace ==
    (ww.closed /\ ~ww.keepNewlines) =>
        (wwOut = <<>> \/ wwOut[Len(wwOut)] \notin {SPACE, TAB})

(***************************************************************************)
(* Append-only output: claim                                               *)
(***************************************************************************)
\* C22: every write to a WordWrapWriter, HardWrapWriter, TruncateWriter or
\* IndentWriter only appends: toString() before the call is a prefix of
\* toString() after the call.  (A step that leaves ww.closed as it was is a
\* write; close() is the other step.)
C22_AppendOnly ==
    [][/\ IsPrefix(TruncateWriterToString(tw), TruncateWriterToString(tw'))
       /\ IsPrefix(HardWrapWriterToString(hw), HardWrapWriterToString(hw'))
       /\ IsPrefix(IndentWriterToString(iw), IndentWriterToString(iw'))
       /\ (ww'.closed = ww.closed) =>
             IsPrefix(WordWrapWriterToString(ww), WordWrapWriterToString(ww'))
      ]_vars

\* A hard-wrap writer whose later write resumed a line and wrapped.
C22_Witness ==
    /\ hw.resumed
    /\ hw.inj # {}
    /\ hwOut # <<>>
    /\ budget = 0

(***************************************************************************)
(* The scanner as a pure function: claims                                  *)
(***************************************************************************)
\* C23: stripping sequences does not change the visible width and is
\* idempotent: printableRuneWidth(stripAnsi(s)) = printableRuneWidth(s) and
\* stripAnsi(stripAnsi(s)) = stripAnsi(s), for every string s written so far.
C23_StripKeepsWidthAndIsIdempotent ==
    /\ printableRuneWidth(stripAnsi(input)) = printableRuneWidth(input)
    /\ stripAnsi(stripAnsi(input)) = stripAnsi(input)

\* An input with a complete sequence, an unterminated one and wide text.
C23_Witness ==
    /\ \E i, j \in 1..Len(input) :
          i < j /\ input[i] = ANSI_MARKER /\ isAnsiTerminator(input[j])
    /\ endsInAnsi(input, 1, FALSE)
    /\ printableRuneWidth(input) >= 2
    /\ stripAnsi(input) # input

\* Whether everything after position k of s is free of terminators.
Unterminated(s, k) == \A i \in (k + 1)..Len(s) : ~isAnsiTerminator(s[i])

\* C24: an escape marker followed by characters none of which is a
\* terminator adds no width, printableRuneWidth(p + ESC + q) =
\* printableRuneWidth(p), and a hard-wrap or word-wrap writer that is inside
\* such a sequence inserts no wrap while it reads more such characters (a
\* step that lengthens the input is such a read).
C24_UnterminatedSequenceHasNoWidth ==
    [][/\ \A k \in 1..Len(input') :
             (input'[k] = ANSI_MARKER /\ Unterminated(input', k)) =>
                 printableRuneWidth(input') =
                     printableRuneWidth(SubSeq(input', 1, k - 1))
       /\ (/\ endsInAnsi(input, 1, FALSE)
           /\ input' # input
           /\ Unterminated(input', Len(input))) =>
             (hw'.inj = hw.inj /\ ww'.inj = ww.inj)
      ]_vars

\* A hard-wrap writer on a full line that has read an escape marker and then
\* wide text and spaces, none of them a terminator.
C24_Witness ==
    /\ active = "hardwrap"
    /\ hw.limit > 0
    /\ hw.lineLen >= hw.limit
    /\ hw.resumed
    /\ \E k \in 1..Len(input) :
          /\ input[k] = ANSI_MARKER
          /\ k + 2 <= Len(input)
          /\ Unterminated(input, k)
          /\ \E i \in (k + 1)..Len(input) : input[i] \in {CJK, SPACE}

(***************************************************************************)
(* Word-wrap: the flush rule                                               *)
(***************************************************************************)
\* The writer once it has read one more space, which flushes the pending
\* word.
wwFlushed == WordWrapWriterWrite(ww, <<SPACE>>)

wwFlushing ==
    /\ active = "wordwrap"
    /\ ~ww.closed
    /\ ~ww.ansi
    /\ ww.word # <<>>
    /\ ww.limit > 0
    /\ ww.lineLen > 0

wwOverflows ==
    ww.lineLen + stringWidth(ww.space) + printableRuneWidth(ww.word) > ww.limit

\* C25: when a pending word is flushed with limit > 0 and lineWidth > 0: if
\* lineWidth + spaceWidth + wordWidth > limit, a newline is emitted, the
\* pending space is discarded and the word starts the new line; otherwise
\* the space run and then the word are appended and both widths are added
\* to lineWidth.
C25_FlushRule ==
    wwFlushing =>
        IF wwOverflows
        THEN /\ WordWrapWriterToString(wwFlushed) = wwOut \o <<LF>> \o ww.word
             /\ wwFlushed.lineLen = printableRuneWidth(ww.word)
        ELSE /\ WordWrapWriterToString(wwFlushed) = wwOut \o ww.space \o ww.word
             /\ wwFlushed.lineLen =
                   ww.lineLen + stringWidth(ww.space)
                       + printableRuneWidth(ww.word)

\* A pending word that fits the line by itself but not after the pending
\* space.
C25_Witness ==
    /\ wwFlushing
    /\ wwOverflows
    /\ ww.space # <<>>
    /\ ww.lineLen + printableRuneWidth(ww.word) <= ww.limit
    /\ WordWrapWriterToString(wwFlushed) = wwOut \o <<LF>> \o ww.word

\* A pending word appended after its pending space.
C25_WitnessFits ==
    /\ wwFlushing
    /\ ~wwOverflows
    /\ ww.space # <<>>

(***************************************************************************)
(* Word-wrap: explicit newlines                                            *)
(***************************************************************************)
\* The writer once its pending word is flushed.
wwWordFlushed == WordWrapFlushWordOnly(ww)

wwSpaceFits ==
    \/ wwWordFlushed.limit = 0
    \/ wwWordFlushed.lineLen + stringWidth(wwWordFlushed.space)
          <= wwWordFlushed.limit

wwReading == active = "wordwrap" /\ ~ww.closed /\ ~ww.ansi

\* C26: with keepNewlines true, a newline character read outside a sequence,
\* whichever character of the configured set it is, adds exactly one '\n'
\* after the pending word has been flushed; the space run then pending comes
\* before that '\n' iff lineWidth + spaceWidth <= limit (or limit is 0) and
\* is discarded otherwise; the line width is 0 afterwards.
C26_KeptNewline ==
    (wwReading /\ ww.keepNewlines) =>
        \A c \in ww.newline :
            LET after == WordWrapWriterWrite(ww, <<c>>) IN
            /\ WordWrapWriterToString(after) =
                  WordWrapWriterToString(wwWordFlushed)
                     \o (IF wwSpaceFits THEN wwWordFlushed.space ELSE <<>>)
                     \o <<LF>>
            /\ after.lineLen = 0
            /\ after.space = <<>>
            /\ after.word = <<>>

\* A writer whose newline set also holds the tab, with a pending space run
\* that does not fit the line.
C26_Witness ==
    /\ wwReading
    /\ ww.keepNewlines
    /\ TAB \in ww.newline
    /\ ww.space # <<>>
    /\ ~wwSpaceFits
    /\ LF \notin {WordWrapWriterToString(ww)[i] : i \in 1..Len(WordWrapWriterToString(ww))}
    /\ WordWrapWriterToString(WordWrapWriterWrite(ww, <<TAB>>)) =
          WordWrapWriterToString(ww) \o <<LF>>

\* Whether the input is one word of plain characters followed by a
\* non-empty run of spaces and newlines.
wwWordThenRun ==
    \E k \in 1..(Len(input) - 1) :
        /\ \A i \in 1..k : input[i] \in {SGR_FINAL, CJK}
        /\ \A i \in (k + 1)..Len(input) : input[i] \in {SPACE, LF}

\* C27: with keepNewlines false, a run of consecutive newline and space
\* characters after a word, in any order, leaves exactly one space in the
\* pending space buffer.
C27_RunCollapsesToOneSpace ==
    (wwReading /\ ~ww.keepNewlines /\ wwWordThenRun) => ww.space = <<SPACE>>

(***************************************************************************)
(* Hard-wrap: spaces, tabs and newlines                                    *)
(***************************************************************************)
\* C28: with preserveSpace false and limit > 0, no output line started by a
\* newline that wrapping inserted begins with a space.
C28_NoLeadingSpaceAfterWrap ==
    (active = "hardwrap" /\ ~hw.preserveSpace /\ hw.limit > 0) =>
        \A p \in hw.inj :
            p + Len(hw.newline) <= Len(hw.buf) =>
                hw.buf[p + Len(hw.newline)] # SPACE

\* What the claim says a tab adds to a line of width lineLen: n spaces, a
\* newline before each space that would land on a full line; without
\* preserveSpace nothing more once such a newline is inserted.
RECURSIVE TabExpansion(_, _, _, _, _)
TabExpansion(lineLen, n, limit, newline, preserveSpace) ==
    IF n = 0 THEN <<>>
    ELSE IF limit > 0 /\ lineLen >= limit
    THEN IF preserveSpace
         THEN newline \o <<SPACE>>
                 \o TabExpansion(1, n - 1, limit, newline, preserveSpace)
         ELSE newline
    ELSE <<SPACE>> \o TabExpansion(lineLen + 1, n - 1, limit, newline,
                                   preserveSpace)

hwTabbed == HardWrapWriterWrite(hw, <<TAB>>)

\* C29 as stated: with tabWidth > 0 a tab is never emitted as a tab
\* character.
C29_TabNeverEmitted ==
    (active = "hardwrap" /\ hw.tabWidth > 0) =>
        \A p \in 1..Len(hw.buf) : hw.buf[p] # TAB

\* C29, amended: with tabWidth > 0 a tab read outside a sequence is never
\* emitted as a tab; with preserveSpace true it adds exactly tabWidth
\* spaces, a newline inserted before each space that would be placed on a
\* full line; with preserveSpace false the spaces that remain after a wrap
\* inserted during the expansion are dropped.  A tab between an escape
\* marker and its terminator is passed through with the sequence.
C29_TabExpansion ==
    (active = "hardwrap" /\ hw.tabWidth > 0) =>
        /\ \A p \in 1..Len(hw.buf) :
              hw.buf[p] = TAB => ~OutsideSequenceAt(hw.buf, p)
        /\ ~hw.ansi =>
              hwTabbed.buf =
                  hw.buf \o TabExpansion(hw.lineLen, hw.tabWidth, hw.limit,
                                         hw.newline, hw.preserveSpace)

\* A tab that wraps in the middle of its expansion, without preserveSpace.
C29_Witness ==
    /\ active = "hardwrap"
    /\ hw.tabWidth > 0
    /\ ~hw.ansi
    /\ ~hw.preserveSpace
    /\ hw.limit > 1
    /\ hw.lineLen = hw.limit - 1
    /\ hwTabbed.buf = hw.buf \o <<SPACE>> \o hw.newline
    /\ TAB \in {input[i] : i \in 1..Len(input)}

\* s without the characters of the set drop that lie outside sequences.
RECURSIVE withoutFrom(_, _, _, _)
withoutFrom(s, i, inAnsi, drop) ==
    IF i > Len(s) THEN <<>>
    ELSE IF s[i] = ANSI_MARKER
    THEN <<s[i]>> \o withoutFrom(s, i + 1, TRUE, drop)
    ELSE IF inAnsi
    THEN <<s[i]>> \o withoutFrom(s, i + 1, ~isAnsiTerminator(s[i]), drop)
    ELSE IF s[i] \in drop THEN withoutFrom(s, i + 1, FALSE, drop)
    ELSE <<s[i]>> \o withoutFrom(s, i + 1, FALSE, drop)

WithoutNewlines(s) == withoutFrom(s, 1, FALSE, HardWrapNewlineChars(hw))

\* C30: with keepNewlines false the output is that of hardwrap for the input
\* with its newline characters outside sequences removed, and a newline
\* read outside a sequence neither emits anything nor changes the line
\* width.
C30_NewlinesIgnored ==
    (active = "hardwrap" /\ ~hw.keepNewlines) =>
        /\ hwOut = hardwrap(WithoutNewlines(input), hw.limit, hw.newline,
                            FALSE, hw.preserveSpace, hw.tabWidth)
        /\ ~hw.ansi =>
              \A c \in HardWrapNewlineChars(hw) :
                  LET after == HardWrapWriterWrite(hw, <<c>>) IN
                  after.buf = hw.buf /\ after.lineLen = hw.lineLen

\* An input with a newline in the middle of a line that is wrapped later.
C30_Witness ==
    /\ active = "hardwrap"
    /\ ~hw.keepNewlines
    /\ hw.limit > 0
    /\ hw.inj # {}
    /\ \E i \in 2..Len(input) :
          /\ input[i] = LF
          /\ OutsideSequenceAt(input, i)
          /\ printableRuneWidth(SubSeq(input, 1, i - 1)) \in 1..(hw.limit - 1)
    /\ WithoutNewlines(input) # input

(***************************************************************************)
(* Truncate: the kept prefix                                               *)
(***************************************************************************)
twBudget == tw.width - twTailWidth

\* C31: when truncation occurs (width >= tail width), the part of the output
\* before the tail is the longest prefix of the input whose printable width
\* is <= width - tailWidth: every character before the first one that would
\* push the cumulative width above the budget, sequences included.
C31_LongestFittingPrefix ==
    (tw.cut >= 0 /\ tw.width >= twTailWidth) =>
        LET kept == SubSeq(twOut, 1, tw.cut) IN
        /\ IsPrefix(kept, input)
        /\ printableRuneWidth(kept) <= twBudget
        /\ Len(kept) < Len(input)
        /\ printableRuneWidth(SubSeq(input, 1, Len(kept) + 1)) > twBudget

\* The same for the input given in one write, which is what truncate() does.
TruncateOneShotKeepsLongestPrefix ==
    LET w == TruncateWriterWrite(TruncateWriterNew(tw.width, tw.tail), input)
        kept == SubSeq(TruncateWriterToString(w), 1, w.cut)
    IN (w.cut >= 0 /\ tw.width >= twTailWidth) =>
          /\ IsPrefix(kept, input)
          /\ printableRuneWidth(kept) <= twBudget
          /\ Len(kept) < Len(input)
          /\ printableRuneWidth(SubSeq(input, 1, Len(kept) + 1)) > twBudget

(***************************************************************************)
(* Indent: algebraic claims                                                *)
(***************************************************************************)
\* C32 as stated: for every input, styled or not, IndentWriter(0) produces
\* exactly the input.  (Checked for the inputs that do not end inside a
\* sequence, so that a sequence still being collected is not what differs.)
C32_IndentZeroIsIdentity ==
    (active = "indent" /\ iw.indent = 0 /\ ~endsInAnsi(input, 1, FALSE)) =>
        iwOut = input

\* C32, amended: IndentWriter(0) produces exactly the input when the input
\* holds no escape marker; for any input the output with its sequences
\* stripped is the input with its sequences stripped (the writer still adds
\* its reset and restored style at line starts).
C32_IndentZeroKeepsText ==
    (active = "indent" /\ iw.indent = 0) =>
        /\ stripAnsi(iwOut) = stripAnsi(input)
        /\ ~Occurs(ANSI_MARKER, input) => iwOut = input

\* A styled two-line input indented by zero: the output differs from the
\* input only by sequences.
C32_Witness ==
    /\ active = "indent"
    /\ iw.indent = 0
    /\ Occurs(LF, stripAnsi(input))
    /\ Len(stripAnsi(input)) >= 2
    /\ iw.inj # {}
    /\ iwOut # input
    /\ stripAnsi(iwOut) = stripAnsi(input)

\* Plain text indented by zero comes back unchanged.
C32_WitnessPlain ==
    /\ active = "indent"
    /\ iw.indent = 0
    /\ ~Occurs(ANSI_MARKER, input)
    /\ Occurs(LF, input)
    /\ Len(input) >= 3
    /\ iwOut = input

\* The number of lines of the plain text s that hold a character or end
\* with a newline: the lines that get an indentation.
StartedLines(s) ==
    Cardinality({i \in 1..Len(s) : i = 1 \/ s[i - 1] = LF})

\* C33: indenting commutes with stripping: stripAnsi(indent(s, n)) =
\* indent(stripAnsi(s), n), and the printable width of the result is that
\* of s plus n for each indented line.
C33_IndentCommutesWithStrip ==
    active = "indent" =>
        /\ stripAnsi(iwOut) = indent(stripAnsi(input), iw.indent)
        /\ stripAnsi(indent(input, iw.indent)) =
              indent(stripAnsi(input), iw.indent)
        /\ printableRuneWidth(iwOut) =
              printableRuneWidth(input)
                 + iw.indent * StartedLines(stripAnsi(input))

\* A styled input of two lines, the second starting with a sequence,
\* indented by two.
C33_Witness ==
    /\ active = "indent"
    /\ iw.indent = 2
    /\ \E i \in 2..(Len(input) - 1) :
          input[i - 1] = LF /\ input[i] = ANSI_MARKER
    /\ StartedLines(stripAnsi(input)) = 2
    /\ ~endsInAnsi(input, 1, FALSE)
    /\ stripAnsi(iwOut) # iwOut
    /\ printableRuneWidth(iwOut) = printableRuneWidth(input) + 4

(***************************************************************************)
(* Hard-wrap: content                                                      *)
(***************************************************************************)
\* s with every occurrence of the string nl deleted, left to right.
RECURSIVE DeleteString(_, _)
DeleteString(s, nl) ==
    IF s = <<>> \/ nl = <<>> THEN s
    ELSE IF IsPrefix(nl, s)
    THEN DeleteString(SubSeq(s, Len(nl) + 1, Len(s)), nl)
    ELSE <<Head(s)>> \o DeleteString(Tail(s), nl)

\* s with every character of the set drop deleted.
DeleteChars(s, drop) == SelectSeq(s, LAMBDA c : c \notin drop)

wwLines == Lines(stripAnsi(wwOut), <<LF>>)

HasLongWord(line) ==
    \E i \in 1..Len(Words(line, ww.breakpoints)) :
        stringWidth(Words(line, ww.breakpoints)[i]) > ww.limit

\* C35: with limit > 0 and keepNewlines true, after close() every output
\* line has printable width <= limit unless the line holds a word whose own
\* width exceeds the limit.
C35_WordWrapLineBound ==
    (ww.closed /\ ww.limit > 0 /\ ww.keepNewlines) =>
        \A i \in 1..Len(wwLines) :
            stringWidth(wwLines[i]) <= ww.limit \/ HasLongWord(wwLines[i])

\* The first line, sequences stripped, of what follows element k of buf.
wwLineAfter(k) ==
    Lines(stripAnsi(Flatten(SubSeq(ww.buf, k + 1, Len(ww.buf)))), <<LF>>)[1]

\* C36: every line that the writer starts with a newline inserted by
\* wrapping holds at least one printable character, and flushing a pending
\* word made only of sequences (printable width 0) inserts no line break.
C36_NoWrapForNothing ==
    /\ ww.closed =>
          \A k \in ww.inj : k <= Len(ww.buf) => stringWidth(wwLineAfter(k)) > 0
    /\ (wwFlushing /\ stripAnsi(ww.word) = <<>>) =>
          wwFlushed.inj = ww.inj

(***************************************************************************)
(* Style trackers: agreement                                               *)
(***************************************************************************)
\* C37: an AnsiBuffer and an AnsiPassthrough fed the same input agree:
\* getLastSequence() returns the same value on both, and a following
\* resetAnsi() emits a reset on both or on neither.
C37_TrackersAgree ==
    active = "tracker" =>
        /\ AnsiBufferGetLastSequence(tracker.ab)
              = AnsiPassthroughGetLastSequence(tracker.ap)
        /\ (TrackerResetAnsi(tracker).emitted.ab # <<>>)
              <=> (TrackerResetAnsi(tracker).emitted.ap # <<>>)

(***************************************************************************)
(* The wrap Writer: claim                                                  *)
(***************************************************************************)
wrOut == WrapWriterToString(wr)

\* The text that follows the last newline string of the buffer.
wrLastLine == Lines(wrOut, wr.newline)[Len(Lines(wrOut, wr.newline))]

\* C38: after any sequence of write calls with limit > 0, lineLen is the
\* printable width of the text that follows the last newline in the buffer,
\* and the buffer is what one write of the whole input gives.
C38_WrapLineLen ==
    (active = "wrap" /\ wr.limit > 0) =>
        /\ wr.lineLen = WrapPrintableRuneWidth(wrLastLine)
        /\ wrOut = wrapString(input, wr.limit, wr.newline, wr.keepNewlines,
                              wr.preserveSpace, wr.tabWidth)

(***************************************************************************)
(* PadWriter: claim                                                        *)
(***************************************************************************)
\* C39: a one-line input whose printable width w satisfies 0 < w < width is
\* padded by PadWriter(width) and close() to printable width exactly width,
\* and PadWriter ends a sequence where the scanner of isAnsiTerminator does:
\* while it reads, its sequence state is that of the scanner.
C39_PadAgreesWithScanner ==
    active = "pad" =>
        /\ (/\ pw.closed
            /\ ~Occurs(LF, input)
            /\ printableRuneWidth(input) > 0
            /\ printableRuneWidth(input) < pw.width) =>
              printableRuneWidth(PadWriterToString(pw)) = pw.width
        /\ ~pw.closed => pw.ansi = endsInAnsi(input, 1, FALSE)

====
